---- MODULE Spec2Model ----
(***************************************************************************)
(* Multi-agent orchestration core of GenAi-Day3Finally/day3bestcode.py:    *)
(* retry_async, CircuitBreaker, StateStore, the five agents and            *)
(* Orchestrator.run_flow, run as asyncio tasks on one event loop; with the  *)
(* Planner of day3bestmultiagent.py and the TraderAgent of                 *)
(* basics/multiagents.py, each under a harness of its own.                 *)
(*                                                                         *)
(* Scheduling.  asyncio is cooperative: a task runs until it suspends in   *)
(* asyncio.sleep (inside a tool, or in the backoff of retry_async).  The   *)
(* variable cur holds the task that is running (0: the event loop is       *)
(* choosing); only that task takes steps, so the code between two          *)
(* suspension points is atomic with respect to the other tasks.            *)
(*                                                                         *)
(* Data.  Time is counted in ticks.  A query is named by the keywords it   *)
(* contains; a text (summary, snippet) is a tagged tuple that records how  *)
(* it was built, and KeywordsIn computes what `w in text.lower()` finds.   *)
(***************************************************************************)
EXTENDS Integers, Sequences, FiniteSets, TLC

\* ------------------------------------------------------------------ bounds
MaxTime == 4          \* ticks of the clock that are explored
MaxThreshold == 3     \* CircuitBreaker unit: fail_threshold ranges over 1..MaxThreshold
MaxTimeout == 2       \* CircuitBreaker unit: recovery_timeout ranges over 1..MaxTimeout
MaxFails == 4         \* CircuitBreaker unit: record_failure() calls in a row that are explored
MaxPolls == 2         \* CircuitBreaker unit: is_open() calls counted since the last record_*
MaxOps == 5           \* StateStore unit: calls of set/checkpoint/rollback explored
MaxDocs == 1          \* documents one fetch returns: 1..MaxDocs (the code: 1..4)
MaxTicket == 1        \* ticket and order numbers drawn: 1..MaxTicket (the code: 1000..9999)
NumFlows == 2         \* Orchestrator: flows run concurrently
MaxFaults == 1        \* Orchestrator: flows in which an unexpected exception is raised
NumCallers == 2       \* Retriever harness: tasks calling RetrieverAgent.run
MaxCalls == 3         \* Retriever harness: calls each task makes
NumExecCalls == 3     \* Executor harness: calls of ExecutorAgent.run made in sequence
MaxRetries == 3       \* retry_async unit: retries ranges over 0..MaxRetries
NumRetryCallers == 2  \* retry_async unit: concurrent callers
NumPlanCallers == 2   \* Planner harness: tasks calling a PlannerAgent.run
NumTimedCallers == 1  \* timed retry_async unit: concurrent callers
NumTradeFlows == 2    \* Trader harness: flows calling TraderAgent.handle concurrently
MaxDecisions == 3     \* Trader harness: decisions in one call of TraderAgent.handle

\* ------------------------------------------------------- program constants
FailThreshold == 4    \* Orchestrator.__init__: fail_threshold=4
RecoveryTimeout == 2  \* Orchestrator.__init__: recovery_timeout=20.0 (one tick is 10 s)
FetchRetries == 3     \* RetrieverAgent.run: retries=3
LlmRetries == 2       \* EnricherAgent.run: retries=2
AlertRetries == 2     \* ExecutorAgent.run, NotifierAgent.run: retries=2
AccountBalance == 100000  \* basics/multiagents.py, Orchestrator.__init__: account_balance=100000.0
OrderRetries == 2     \* basics/multiagents.py, TraderAgent.handle: retries=2
MaxQty == 10          \* basics/multiagents.py, TraderAgent.handle: min(10, ...)

None == "None"

VARIABLES
  now,          \* time.time(), in ticks
  cb,           \* the CircuitBreaker (Orchestrator.doc_cb)
  store,        \* StateStore._store: key -> value
  checkpoints,  \* StateStore._checkpoints: name -> snapshot
  fl,           \* the tasks: each one's position and local variables
  cur,          \* the task that is running; 0 when the event loop is choosing
  METRICS,      \* module-level METRICS
  AUDIT_LOG,    \* module-level AUDIT_LOG, as the set of its entries
  cb_obs,       \* observer of the CircuitBreaker unit
  st_obs,       \* observer of the StateStore unit
  cache_obs,    \* observer of the document cache
  trader        \* basics/multiagents.py: the TraderAgent's balance and position

cbvars == <<now, cb>>
stvars == <<store, checkpoints>>
flvars == <<fl, cur, METRICS, AUDIT_LOG>>
obsvars == <<cb_obs, st_obs, cache_obs>>
vars == <<now, cb, store, checkpoints, fl, cur, METRICS, AUDIT_LOG, cb_obs, st_obs, cache_obs, trader>>

\* ---------------------------------------------------------- CircuitBreaker
\* A method is an operator from the object (and the clock) to the object after
\* the call; is_open also yields its return value.
CircuitBreaker(th, to) ==
  [fail_threshold |-> th, recovery_timeout |-> to, fails |-> 0, open_until |-> 0]

record_success_keep_count(c) == [c EXCEPT !.open_until = 0]

record_success(c) == [c EXCEPT !.fails = 0, !.open_until = 0]

record_failure_strict(c, t) ==
  LET n == c.fails + 1 IN
  [c EXCEPT !.fails = n,
            !.open_until = IF n > c.fail_threshold THEN t + c.recovery_timeout
                           ELSE c.open_until]

record_failure_exact(c, t) ==
  LET n == c.fails + 1 IN
  [c EXCEPT !.fails = n,
            !.open_until = IF n = c.fail_threshold THEN t + c.recovery_timeout
                           ELSE c.open_until]

record_failure(c, t) ==
  LET n == c.fails + 1 IN
  [c EXCEPT !.fails = n,
            !.open_until = IF n >= c.fail_threshold THEN t + c.recovery_timeout
                           ELSE c.open_until]

is_open_counting(c, t) ==
  LET open == (c.open_until # 0 /\ t < c.open_until) IN
  [ret |-> open, self |-> IF open THEN [c EXCEPT !.fails = @ + 1] ELSE c]

\* `self._open_until and time.time() < self._open_until`: 0.0 is falsy.
is_open(c, t) ==
  [ret |-> (c.open_until # 0 /\ t < c.open_until), self |-> c]

\* The breaker has opened and its recovery_timeout has passed: is_open() is
\* false again while the failure count is still at or over the threshold.
HalfOpen(c, t) == c.fails >= c.fail_threshold /\ c.open_until # 0 /\ t >= c.open_until

\* The observer of the breaker: consec counts the failures reported to it since
\* the last success reported (by the agents: the runs that ran out of retries
\* since the last successful fetch); the other fields belong to the unit.
CbObs0 == [consec |-> 0, last_fail |-> 0, last_op |-> "none", ret |-> FALSE, polls |-> 0]

\* --------------------------------------------------------------- StateStore
Get(s, key, default) == IF key \in DOMAIN s THEN s[key] ELSE default

Set_if_absent(s, key, value) ==
  [k \in DOMAIN s \cup {key} |-> IF k \in DOMAIN s THEN s[k] ELSE value]

\* set(key, value): self._store[key] = value
Set(s, key, value) ==
  [k \in DOMAIN s \cup {key} |-> IF k = key THEN value ELSE s[k]]

\* checkpoint(name): self._checkpoints[name] = dict(self._store)
Checkpoint(cps, s, name) ==
  [n \in DOMAIN cps \cup {name} |-> IF n = name THEN s ELSE cps[n]]

Rollback_merge(cps, s, name) ==
  IF name \in DOMAIN cps
  THEN [k \in DOMAIN s \cup DOMAIN cps[name] |->
          IF k \in DOMAIN cps[name] THEN cps[name][k] ELSE s[k]]
  ELSE s

Rollback_noop(cps, s, name) == s

\* rollback(name): the live store becomes a copy of the snapshot; unknown name: no-op
Rollback(cps, s, name) ==
  IF name \in DOMAIN cps THEN cps[name] ELSE s

Empty == [k \in {} |-> None]

Metrics0 == [flows_started |-> 0, flows_failed |-> 0, flows_succeeded |-> 0]

\* TraderAgent.__init__: self.balance = account_balance; self.position = {}
Trader0 == [balance |-> AccountBalance, position |-> Empty]

\* The observer of the cache: `live` is what the most recent successful fetch
\* returned, among the fetches whose write no rollback has discarded (NoneV when
\* there is none); `saved` is what `live` was when each checkpoint was taken.
CacheObs0 == [live |-> <<"None">>, saved |-> Empty]

cache_fetched(o, docs) == [o EXCEPT !.live = docs]

cache_checkpoint(o, name) ==
  [o EXCEPT !.saved = [n \in DOMAIN @ \cup {name} |-> IF n = name THEN o.live ELSE @[n]]]

cache_rollback(o, name) ==
  IF name \in DOMAIN o.saved THEN [o EXCEPT !.live = o.saved[name]] ELSE o

Count_stale(m, name) == [m EXCEPT ![name] = 1]

\* METRICS[name] += 1
Count(m, name) == [m EXCEPT ![name] = @ + 1]

\* ------------------------------------------------------------------- clock
\* Time passes while the event loop waits.
Tick ==
  /\ cur = 0
  /\ now < MaxTime
  /\ now' = now + 1
  /\ UNCHANGED <<cb, stvars, flvars, obsvars, trader>>

\* -------------------------------------------------------------------- data
\* Python values that one variable holds with different types are tagged.
NoneV == <<"None">>
Str(x) == <<"str", x>>
Dict(r) == <<"dict", r>>
Truthy(v) == v # NoneV /\ v # <<>>

AgentResult(ok, data, error) == [ok |-> ok, data |-> data, error |-> error]

\* A query is the sequence of its words.
QFraud == <<"Check", "fraud", "alerts">>
QBuy == <<"Buy", "signals">>
QPlain == <<"market", "signals">>
QBoth == <<"RISK", "Buy">>
Queries == {QFraud, QBuy, QPlain, QBoth}

\* tool_fetch_documents: [f"Doc({query})#{i}" for i in range(1, n + 1)]
Docs(query, n) == [i \in 1..n |-> <<"Doc", query, i>>]

\* An exception: its message, str(e), and the call that raised it.
Exc(msg, stage, call) == [msg |-> msg, stage |-> stage, call |-> call]
NoExc == Exc("", "none", 0)

ToolError(stage) ==
  CASE stage = "fetch" -> "document service unavailable"
    [] stage = "llm" -> "LLM timeout"
    [] OTHER -> "notification service failed"

\* ------------------------------------------------------------------- tasks
Flow0 ==
  [pc |-> "idle", stage |-> "none", query |-> <<>>, key |-> None, ncalls |-> 0,
   payload |-> Empty, args |-> <<>>, retries |-> 0, attempt |-> 0, calls |-> 0, oks |-> 0,
   val |-> NoneV, exc |-> NoExc, aloc |-> Empty, res |-> Empty, loc |-> Empty,
   ret |-> Empty]

Procs == DOMAIN fl

\* audit(event, payload) appends an entry.  The log is kept as the set of its
\* flow-level entries, those whose payload names a flow_id, each as the event
\* and that flow; the agents' own entries are not kept.
audit(log, event, payload) ==
  IF "flow_id" \in DOMAIN payload
  THEN log \cup {[event |-> event, flow_id |-> payload.flow_id]}
  ELSE log

\* ------------------------------------------------------------- retry_async
\* retry_async up to its first `await func(...)`: attempt = 0 and the first call.
retry_call(r, stage, args, retries) ==
  [r EXCEPT !.pc = "wait", !.stage = stage, !.args = args, !.retries = retries,
            !.attempt = 0, !.calls = 1, !.oks = 0, !.val = NoneV, !.exc = NoExc]

retry_on_failure_eager(r, e) ==
  LET a == r.attempt + 1 IN
  IF a >= r.retries
  THEN [r EXCEPT !.attempt = a, !.exc = e, !.pc = "retry_exc"]
  ELSE [r EXCEPT !.attempt = a, !.exc = e, !.pc = "backoff"]

retry_on_failure_late(r, e) ==
  LET a == r.attempt + 1 IN
  IF a > r.retries + 1
  THEN [r EXCEPT !.attempt = a, !.exc = e, !.pc = "retry_exc"]
  ELSE [r EXCEPT !.attempt = a, !.exc = e, !.pc = "backoff"]

retry_on_failure_unbounded(r, e) ==
  [r EXCEPT !.exc = e, !.pc = "backoff", !.calls = 0]

\* except Exception as e: attempt += 1; if attempt > retries: raise; else sleep
retry_on_failure(r, e) ==
  LET a == r.attempt + 1 IN
  IF a > r.retries
  THEN [r EXCEPT !.attempt = a, !.exc = e, !.pc = "retry_exc"]
  ELSE [r EXCEPT !.attempt = a, !.exc = e, !.pc = "backoff"]

\* What the awaited tool returns when it does not raise.
ToolValues(r) ==
  CASE r.stage = "fetch" -> {Docs(r.args, n) : n \in 1..MaxDocs}
    [] r.stage = "llm" -> {<<"LLM_SUMMARY", r.args>>}
    [] OTHER -> {TRUE}

\* The tool wakes from its sleep and returns: retry_async returns its value.
Tool_Return(f) ==
  /\ cur = 0 /\ fl[f].pc = "wait"
  /\ \E v \in ToolValues(fl[f]) :
       fl' = [fl EXCEPT ![f] = [@ EXCEPT !.pc = "retry_ok", !.val = v, !.oks = @ + 1]]
  /\ cur' = f
  /\ UNCHANGED <<cbvars, stvars, METRICS, AUDIT_LOG, obsvars, trader>>

\* The tool wakes from its sleep and raises: retry_async counts the attempt and
\* either re-raises (control is back in the agent) or goes to sleep.
Tool_Raise(f) ==
  /\ cur = 0 /\ fl[f].pc = "wait"
  /\ LET r == retry_on_failure(fl[f], Exc(ToolError(fl[f].stage), fl[f].stage, fl[f].calls)) IN
       /\ fl' = [fl EXCEPT ![f] = r]
       /\ cur' = IF r.pc = "retry_exc" THEN f ELSE 0
  /\ UNCHANGED <<cbvars, stvars, METRICS, AUDIT_LOG, obsvars, trader>>

\* The backoff sleep ends: the loop calls func again, which suspends in the tool.
Backoff_Done(f) ==
  /\ cur = 0 /\ fl[f].pc = "backoff"
  /\ fl' = [fl EXCEPT ![f] = [@ EXCEPT !.pc = "wait", !.calls = @ + 1]]
  /\ UNCHANGED <<cur, cbvars, stvars, METRICS, AUDIT_LOG, obsvars, trader>>

\* Durations are exact decimals: initial_backoff and max_backoff in tenths of
\* a second, the jitter factor 0.9 + random.random() * 0.2 in hundredths, and a
\* sleep in thousandths of a second.
InitialBackoffs == {2, 3}
MaxBackoffs == {5, 50}
Jitters == {90, 100, 109}

Min(a, b) == IF a < b THEN a ELSE b

backoff_no_doubling(initial_backoff, max_backoff, attempt, jitter) ==
  Min(max_backoff * 100, initial_backoff * jitter)

\* backoff = min(max_backoff, initial_backoff * (2 ** (attempt - 1)) * jitter)
backoff(initial_backoff, max_backoff, attempt, jitter) ==
  Min(max_backoff * 100, initial_backoff * (2 ^ (attempt - 1)) * jitter)

\* Tool_Raise with the durations: the frame of retry_async holds its
\* initial_backoff and max_backoff, and the sleeps it has asked for so far.
Tool_Raise_Timed(f) ==
  /\ cur = 0 /\ fl[f].pc = "wait"
  /\ \E jitter \in Jitters :
       LET r == retry_on_failure(fl[f], Exc(ToolError(fl[f].stage), fl[f].stage, fl[f].calls))
           b == backoff(r.aloc.initial_backoff, r.aloc.max_backoff, r.attempt, jitter) IN
         /\ fl' = [fl EXCEPT ![f] =
                     IF r.pc = "backoff"
                     THEN [r EXCEPT !.aloc = [@ EXCEPT !.sleeps = Append(@, b)]]
                     ELSE r]
         /\ cur' = IF r.pc = "retry_exc" THEN f ELSE 0
  /\ UNCHANGED <<cbvars, stvars, METRICS, AUDIT_LOG, obsvars, trader>>

\* ---------------------------------------------------------- RetrieverAgent
KCached == <<"cached_docs">>

\* run, up to the first suspension: the breaker check, then the guarded call
Retr_Run(f) ==
  /\ cur = f /\ fl[f].pc = "retr"
  /\ LET query == fl[f].payload.query
         o == is_open(cb, now) IN
       /\ cb' = o.self
       /\ IF o.ret
          THEN /\ fl' = [fl EXCEPT ![f] = [@ EXCEPT
                           !.pc = "retr_ret",
                           !.res = Set(Empty, "retriever",
                                       AgentResult(TRUE,
                                                   [docs |-> Get(store, KCached, <<>>),
                                                    source |-> "cache"], None))]]
               /\ cur' = f
          ELSE /\ fl' = [fl EXCEPT ![f] =
                           retry_call([@ EXCEPT !.aloc = [half_open |-> HalfOpen(cb, now)]],
                                      "fetch", query, FetchRetries)]
               /\ cur' = 0
  /\ UNCHANGED <<now, stvars, METRICS, AUDIT_LOG, obsvars, trader>>

\* retry_async returned the documents
Retr_Ok(f) ==
  /\ cur = f /\ fl[f].pc = "retry_ok" /\ fl[f].stage = "fetch"
  /\ LET docs == fl[f].val IN
       /\ cb' = record_success(cb)
       /\ store' = Set(store, KCached, docs)
       /\ AUDIT_LOG' = audit(AUDIT_LOG, "retriever_success",
                             [query |-> fl[f].args, docs_count |-> Len(docs)])
       /\ fl' = [fl EXCEPT ![f] = [@ EXCEPT
                   !.pc = "retr_ret",
                   !.res = Set(Empty, "retriever",
                               AgentResult(TRUE, [docs |-> docs, source |-> "live"], None))]]
  /\ cb_obs' = [cb_obs EXCEPT !.consec = 0]
  /\ cache_obs' = cache_fetched(cache_obs, fl[f].val)
  /\ UNCHANGED <<now, cur, checkpoints, METRICS, st_obs, trader>>

retriever_fallback_empty(s, e) ==
  AgentResult(FALSE, [docs |-> <<>>, source |-> "fallback"], e.msg)

\* fallback_docs = self.state.get("cached_docs", []); AgentResult(ok=False, ...)
retriever_fallback(s, e) ==
  AgentResult(FALSE, [docs |-> Get(s, KCached, <<>>), source |-> "fallback"], e.msg)

\* retry_async raised: one breaker failure, fall back to the cache
Retr_Exc(f) ==
  /\ cur = f /\ fl[f].pc = "retry_exc" /\ fl[f].stage = "fetch"
  /\ LET e == fl[f].exc IN
       /\ cb' = record_failure(cb, now)
       /\ AUDIT_LOG' = audit(AUDIT_LOG, "retriever_error",
                             [query |-> fl[f].args, error |-> e.msg])
       /\ fl' = [fl EXCEPT ![f] = [@ EXCEPT
                   !.pc = "retr_ret",
                   !.res = Set(Empty, "retriever", retriever_fallback(store, e))]]
  /\ cb_obs' = [cb_obs EXCEPT !.consec = @ + 1]
  /\ UNCHANGED <<now, cur, stvars, METRICS, st_obs, cache_obs, trader>>

\* ----------------------------------------------------------- EnricherAgent
KSummary == <<"last_summary">>

Take(seq, n) == SubSeq(seq, 1, IF Len(seq) < n THEN Len(seq) ELSE n)

\* "Summarize: " + " ".join(docs[:5])
Prompt(docs) == <<"Summarize", Take(docs, 5)>>

\* " ".join(docs)[:240] + ("..." if it was longer)
Naive(docs) == <<"NAIVE", docs>>

enricher_no_docs_other == AgentResult(FALSE, [enriched |-> <<>>], "empty")

\* return AgentResult(ok=False, data={"enriched": []}, error="no_docs")
enricher_no_docs == AgentResult(FALSE, [enriched |-> <<>>], "no_docs")

enricher_skips_never(docs) == FALSE

\* if not docs:
enricher_skips(docs) == docs = <<>>

Enr_Run(f) ==
  /\ cur = f /\ fl[f].pc = "enr"
  /\ LET docs == Get(fl[f].payload, "docs", <<>>) IN
       IF enricher_skips(docs)
       THEN /\ fl' = [fl EXCEPT ![f] = [@ EXCEPT !.pc = "enr_ret",
                                         !.res = Set(Empty, "enricher", enricher_no_docs)]]
            /\ cur' = f
       ELSE /\ fl' = [fl EXCEPT ![f] =
                        retry_call([@ EXCEPT !.aloc = [docs |-> docs]],
                                   "llm", Prompt(docs), LlmRetries)]
            /\ cur' = 0
  /\ UNCHANGED <<cbvars, stvars, METRICS, AUDIT_LOG, obsvars, trader>>

Enr_Ok(f) ==
  /\ cur = f /\ fl[f].pc = "retry_ok" /\ fl[f].stage = "llm"
  /\ LET summary == fl[f].val IN
       /\ AUDIT_LOG' = audit(AUDIT_LOG, "enricher_success",
                             [docs_count |-> Len(fl[f].aloc.docs)])
       /\ store' = Set(store, KSummary, summary)
       /\ fl' = [fl EXCEPT ![f] = [@ EXCEPT
                   !.pc = "enr_ret",
                   !.res = Set(Empty, "enricher", AgentResult(TRUE, [summary |-> summary], None))]]
  /\ UNCHANGED <<cur, cbvars, checkpoints, METRICS, obsvars, trader>>

Enr_Exc(f) ==
  /\ cur = f /\ fl[f].pc = "retry_exc" /\ fl[f].stage = "llm"
  /\ LET e == fl[f].exc
         naive == Naive(fl[f].aloc.docs) IN
       /\ AUDIT_LOG' = audit(AUDIT_LOG, "enricher_error", [error |-> e.msg])
       /\ fl' = [fl EXCEPT ![f] = [@ EXCEPT
                   !.pc = "enr_ret",
                   !.res = Set(Empty, "enricher", AgentResult(FALSE, [summary |-> naive], e.msg))]]
  /\ UNCHANGED <<cur, cbvars, stvars, METRICS, obsvars, trader>>

\* ------------------------------------------------------------ PlannerAgent
KPlan == <<"last_plan">>
EscWords == {"alert", "fraud", "risk", "urgent"}
OppWords == {"opportunity", "buy", "recommend"}

\* str.lower() on the words of the vocabulary
Lower(w) ==
  CASE w = "Check" -> "check"
    [] w = "Buy" -> "buy"
    [] w = "RISK" -> "risk"
    [] OTHER -> w

\* The keywords that occur in a lower-case word as a substring.
KeywordsOfWord(w) ==
  CASE w = "alerts" -> {"alert"}
    [] w \in EscWords \cup OppWords -> {w}
    [] OTHER -> {}

\* The words of a text.  The fixed parts ("LLM_SUMMARY:", "Summarize:", "Doc(",
\* ")#i") hold no keyword and are left out; every document quotes its query,
\* and the first one is short enough to survive prompt[:120] and [:240].
WordsOfDocs(docs) == UNION {{docs[i][2][j] : j \in 1..Len(docs[i][2])} : i \in 1..Len(docs)}

WordsOf(text) ==
  CASE text = <<>> -> {}
    [] text[1] = "LLM_SUMMARY" -> WordsOfDocs(text[2][2])
    [] text[1] = "NAIVE" -> WordsOfDocs(text[2])
    [] OTHER -> {}

\* w in summary.lower()
Contains(text, kw) == \E w \in WordsOf(text) : kw \in KeywordsOfWord(Lower(w))

\* summary[:200]
Snippet(text) == IF text = <<>> THEN <<>> ELSE <<"[:200]", text>>

decide_opp_first(summary) ==
  IF \E w \in OppWords : Contains(summary, w) THEN "recommend_trade"
  ELSE IF \E w \in EscWords : Contains(summary, w) THEN "escalate"
  ELSE "inform"

decide_default_escalate(summary) ==
  IF \E w \in EscWords : Contains(summary, w) THEN "escalate"
  ELSE IF \E w \in OppWords : Contains(summary, w) THEN "recommend_trade"
  ELSE "escalate"

decide(summary) ==
  IF \E w \in EscWords : Contains(summary, w) THEN "escalate"
  ELSE IF \E w \in OppWords : Contains(summary, w) THEN "recommend_trade"
  ELSE "inform"

Plan_Run(f) ==
  /\ cur = f /\ fl[f].pc = "plan"
  /\ LET summary == Get(fl[f].payload, "summary", <<>>)
         decision == decide(summary)
         plan == [decision |-> decision, summary_snippet |-> Snippet(summary)] IN
       /\ AUDIT_LOG' = audit(AUDIT_LOG, "planner_decision", [decision |-> decision])
       /\ store' = Set(store, KPlan, plan)
       /\ fl' = [fl EXCEPT ![f] = [@ EXCEPT
                   !.pc = "plan_ret",
                   !.res = Set(Empty, "planner", AgentResult(TRUE, [plan |-> plan], None))]]
  /\ UNCHANGED <<cur, cbvars, checkpoints, METRICS, obsvars, trader>>

\* PlannerAgent.run of day3bestmultiagent.py: its own keyword lists, the action
\* named "trade", a plain dict returned; it is synchronous.
EscWords2 == {"risk", "alert", "urgent"}
OppWords2 == {"recommend", "buy"}

decide2_opp_first(summary) ==
  IF \E w \in OppWords2 : Contains(summary, w) THEN "trade"
  ELSE IF \E w \in EscWords2 : Contains(summary, w) THEN "escalate"
  ELSE "inform"

decide2(summary) ==
  IF \E w \in EscWords2 : Contains(summary, w) THEN "escalate"
  ELSE IF \E w \in OppWords2 : Contains(summary, w) THEN "trade"
  ELSE "inform"

Plan2_Run(f) ==
  /\ cur = f /\ fl[f].pc = "plan2"
  /\ LET summary == Get(fl[f].payload, "summary", <<>>)
         action == decide2(summary)
         plan == [action |-> action, reason |-> <<"decided", action>>] IN
       fl' = [fl EXCEPT ![f] = [@ EXCEPT !.pc = "plan2_ret",
                                         !.res = Set(Empty, "planner", [plan |-> plan])]]
  /\ UNCHANGED <<cur, cbvars, stvars, METRICS, AUDIT_LOG, obsvars, trader>>

\* ----------------------------------------------------------- ExecutorAgent
KExec_shared(key) == <<"exec_done", "shared">>

\* f"exec_done_{idempotency_key}"
KExec(key) == <<"exec_done", key>>

\* str(uuid.uuid4()): a key no other call has
Uuid(f) == <<"uuid-1", "uuid-2", "uuid-3", "uuid-4">>[f]

exec_replay_never(s, key) == FALSE

exec_replay_unless_no_action(s, key) ==
  /\ Truthy(Get(s, KExec(key), NoneV))
  /\ Get(s, KExec(key), NoneV) # Dict([status |-> "no_action"])

\* if self.state.get(f"exec_done_{idempotency_key}")
exec_replay(s, key) == Truthy(Get(s, KExec(key), NoneV))

Exec_Run(f) ==
  /\ cur = f /\ fl[f].pc = "exec"
  /\ LET plan == Get(fl[f].payload, "plan", Empty)
         decision == Get(plan, "decision", None)
         given == Get(fl[f].payload, "idempotency_key", None)
         key == IF given # None THEN given ELSE Uuid(f)
         r == [fl[f] EXCEPT !.aloc = [decision |-> decision, idempotency_key |-> key]] IN
       IF exec_replay(store, key)
       THEN /\ fl' = [fl EXCEPT ![f] = [r EXCEPT
                        !.pc = "exec_ret",
                        !.res = Set(Empty, "executor",
                                    AgentResult(TRUE, [result |-> Str("already_executed"),
                                                       idempotency_key |-> key], None))]]
            /\ UNCHANGED <<cur, store, AUDIT_LOG>>
       ELSE IF decision = "escalate"
       THEN /\ fl' = [fl EXCEPT ![f] =
                        retry_call(r, "exec", <<"ESCALATION", plan.summary_snippet>>, AlertRetries)]
            /\ cur' = 0
            /\ UNCHANGED <<store, AUDIT_LOG>>
       ELSE IF decision = "recommend_trade"
       THEN /\ fl' = [fl EXCEPT ![f] =
                        retry_call(r, "exec", <<"TRADE_EXECUTE", plan.summary_snippet>>, AlertRetries)]
            /\ cur' = 0
            /\ UNCHANGED <<store, AUDIT_LOG>>
       ELSE LET result == Dict([status |-> "no_action"]) IN
            /\ store' = Set(store, KExec(key), result)
            /\ AUDIT_LOG' = audit(AUDIT_LOG, "executor_success",
                                  [idempotency_key |-> key, result |-> result])
            /\ fl' = [fl EXCEPT ![f] = [r EXCEPT
                        !.pc = "exec_ret",
                        !.res = Set(Empty, "executor",
                                    AgentResult(TRUE, [result |-> result,
                                                       idempotency_key |-> key], None))]]
            /\ cur' = f
  /\ UNCHANGED <<cbvars, checkpoints, METRICS, obsvars, trader>>

\* tool_send_alert returned: the ticket or order number is drawn, the record committed
Exec_Ok(f) ==
  /\ cur = f /\ fl[f].pc = "retry_ok" /\ fl[f].stage = "exec"
  /\ \E n \in 1..MaxTicket :
       LET key == fl[f].aloc.idempotency_key
           result == IF fl[f].aloc.decision = "escalate"
                     THEN Dict([status |-> "escalated", ticket_id |-> n])
                     ELSE Dict([status |-> "trade_executed", order_id |-> n]) IN
         /\ store' = Set(store, KExec(key), result)
         /\ AUDIT_LOG' = audit(AUDIT_LOG, "executor_success",
                               [idempotency_key |-> key, result |-> result])
         /\ fl' = [fl EXCEPT ![f] = [@ EXCEPT
                     !.pc = "exec_ret",
                     !.res = Set(Empty, "executor",
                                 AgentResult(TRUE, [result |-> result,
                                                    idempotency_key |-> key], None))]]
  /\ UNCHANGED <<cur, cbvars, checkpoints, METRICS, obsvars, trader>>

executor_failed_store_marks(s, key) == Set(s, KExec(key), Dict([status |-> "failed"]))

\* The store after the except branch of run: the commit of line 236 was not
\* reached and the branch itself writes nothing.
executor_failed_store(s, key) == s

Exec_Exc(f) ==
  /\ cur = f /\ fl[f].pc = "retry_exc" /\ fl[f].stage = "exec"
  /\ LET e == fl[f].exc IN
       /\ AUDIT_LOG' = audit(AUDIT_LOG, "executor_error", [error |-> e.msg])
       /\ store' = executor_failed_store(store, fl[f].aloc.idempotency_key)
       /\ fl' = [fl EXCEPT ![f] = [@ EXCEPT
                   !.pc = "exec_ret",
                   !.res = Set(Empty, "executor", AgentResult(FALSE, [result |-> NoneV], e.msg))]]
  /\ UNCHANGED <<cur, cbvars, checkpoints, METRICS, obsvars, trader>>

\* ----------------------------------------------------------- NotifierAgent
KPending == <<"pending_notification">>

Notify_Run(f) ==
  /\ cur = f /\ fl[f].pc = "notify"
  /\ LET summary == Get(fl[f].payload, "summary", <<>>)
         exec_result == Get(fl[f].payload, "execution_result", Dict(Empty))
         message == <<"Notification", exec_result, Snippet(summary)>> IN
       fl' = [fl EXCEPT ![f] =
                retry_call([@ EXCEPT !.aloc = [message |-> message]],
                           "notify", message, AlertRetries)]
  /\ cur' = 0
  /\ UNCHANGED <<cbvars, stvars, METRICS, AUDIT_LOG, obsvars, trader>>

Notify_Ok(f) ==
  /\ cur = f /\ fl[f].pc = "retry_ok" /\ fl[f].stage = "notify"
  /\ AUDIT_LOG' = audit(AUDIT_LOG, "notifier_sent", [message |-> fl[f].aloc.message])
  /\ fl' = [fl EXCEPT ![f] = [@ EXCEPT
              !.pc = "notify_ret",
              !.res = Set(Empty, "notifier", AgentResult(TRUE, [notified |-> TRUE], None))]]
  /\ UNCHANGED <<cur, cbvars, stvars, METRICS, obsvars, trader>>

notifier_fallback_drop(s, message, t) == s

\* self.state.set("pending_notification", {"message": message, "ts": time.time()})
notifier_fallback(s, message, t) == Set(s, KPending, [message |-> message, ts |-> t])

Notify_Exc(f) ==
  /\ cur = f /\ fl[f].pc = "retry_exc" /\ fl[f].stage = "notify"
  /\ LET e == fl[f].exc IN
       /\ AUDIT_LOG' = audit(AUDIT_LOG, "notifier_failed", [error |-> e.msg])
       /\ store' = notifier_fallback(store, fl[f].aloc.message, now)
       /\ fl' = [fl EXCEPT ![f] = [@ EXCEPT
                   !.pc = "notify_ret",
                   !.res = Set(Empty, "notifier", AgentResult(FALSE, [notified |-> FALSE], e.msg))]]
  /\ UNCHANGED <<cur, cbvars, checkpoints, METRICS, obsvars, trader>>

\* ------------------------------------------------------------ Orchestrator
KReview == <<"manual_review">>
KTicket == <<"manual_ticket">>
Keys == {"idp-1", "idp-2"}
FlowQueries == {QFraud, QPlain}
FaultMsg == "unexpected"

CheckpointName_unscoped(flow_id) == <<"start", 0>>

\* checkpoint_name = f"start_{flow_id}"
CheckpointName(flow_id) == <<"start", flow_id>>

\* run_flow up to the first step: the flow id, the counter, the start checkpoint
StartFlowWith(f, query, idempotency_key) ==
  /\ cur = 0 /\ fl[f].pc = "idle"
  /\ LET flow_id == f IN
       /\ METRICS' = Count(METRICS, "flows_started")
       /\ checkpoints' = Checkpoint(checkpoints, store, CheckpointName(flow_id))
       /\ AUDIT_LOG' = audit(audit(AUDIT_LOG, "flow_started",
                                   [flow_id |-> flow_id, query |-> query,
                                    idempotency_key |-> idempotency_key]),
                             "checkpoint_created", [name |-> CheckpointName(flow_id)])
       /\ fl' = [fl EXCEPT ![f] = [@ EXCEPT
                   !.pc = "retr", !.query = query, !.key = idempotency_key,
                   !.loc = [flow_id |-> flow_id, start |-> store],
                   !.payload = [query |-> query]]]
  /\ cur' = f
  /\ cache_obs' = cache_checkpoint(cache_obs, CheckpointName(f))
  /\ UNCHANGED <<cbvars, store, cb_obs, st_obs, trader>>

\* run_flow called with any query and idempotency key
StartFlow(f) ==
  \E query \in FlowQueries, idempotency_key \in Keys : StartFlowWith(f, query, idempotency_key)

\* An agent has returned: its frame (and that of retry_async) is gone.
Returned(r) ==
  [r EXCEPT !.stage = "none", !.args = <<>>, !.retries = 0, !.attempt = 0, !.calls = 0, !.oks = 0,
            !.val = NoneV, !.exc = NoExc, !.aloc = Empty, !.res = Empty]

NextPc_planner_first(pc) ==
  CASE pc = "retr_ret" -> "plan"
    [] pc = "plan_ret" -> "enr"
    [] pc = "enr_ret" -> "exec"
    [] pc = "exec_ret" -> "notify"
    [] pc = "notify_ret" -> "done"

\* The order of the awaits in the try block: where run_flow goes on when an
\* agent's run has returned.
NextPc(pc) ==
  CASE pc = "retr_ret" -> "enr"
    [] pc = "enr_ret" -> "plan"
    [] pc = "plan_ret" -> "exec"
    [] pc = "exec_ret" -> "notify"
    [] pc = "notify_ret" -> "done"

\* 1) -> 2): docs = retr_res.data.get("docs", []); enricher.run({"docs": docs})
Flow_AfterRetrieve(f) ==
  /\ cur = f /\ fl[f].pc = "retr_ret"
  /\ LET docs == Get(fl[f].res["retriever"].data, "docs", <<>>) IN
       fl' = [fl EXCEPT ![f] = [Returned(@) EXCEPT !.pc = NextPc("retr_ret"), !.payload = [docs |-> docs]]]
  /\ UNCHANGED <<cur, cbvars, stvars, METRICS, AUDIT_LOG, obsvars, trader>>

\* 2) -> 3): summary = enr_res.data.get("summary", ""); planner.run({"summary": summary})
Flow_AfterEnrich(f) ==
  /\ cur = f /\ fl[f].pc = "enr_ret"
  /\ LET summary == Get(fl[f].res["enricher"].data, "summary", <<>>) IN
       fl' = [fl EXCEPT ![f] = [Returned(@) EXCEPT !.pc = NextPc("enr_ret"),
                                         !.loc = Set(@, "summary", summary),
                                         !.payload = [summary |-> summary]]]
  /\ UNCHANGED <<cur, cbvars, stvars, METRICS, AUDIT_LOG, obsvars, trader>>

\* 3) -> 4): plan = plan_res.data.get("plan", {}); executor.run({plan, idempotency_key})
Flow_AfterPlan(f) ==
  /\ cur = f /\ fl[f].pc = "plan_ret"
  /\ LET plan == Get(fl[f].res["planner"].data, "plan", Empty) IN
       fl' = [fl EXCEPT ![f] = [Returned(@) EXCEPT !.pc = NextPc("plan_ret"),
                                         !.loc = Set(@, "plan", plan),
                                         !.payload = [plan |-> plan,
                                                      idempotency_key |-> fl[f].key]]]
  /\ UNCHANGED <<cur, cbvars, stvars, METRICS, AUDIT_LOG, obsvars, trader>>

\* 4) -> 5): a failed execution is flagged for manual review and the flow goes on
Flow_AfterExec(f) ==
  /\ cur = f /\ fl[f].pc = "exec_ret"
  /\ LET exec_res == fl[f].res["executor"]
         execution_result == Get(exec_res.data, "result", NoneV) IN
       /\ IF ~exec_res.ok
          THEN /\ AUDIT_LOG' = audit(AUDIT_LOG, "execution_fallback",
                                     [plan |-> fl[f].loc.plan, error |-> exec_res.error])
               /\ store' = Set(store, KReview,
                               [flow_id |-> fl[f].loc.flow_id, plan |-> fl[f].loc.plan,
                                error |-> exec_res.error])
          ELSE UNCHANGED <<AUDIT_LOG, store>>
       /\ fl' = [fl EXCEPT ![f] = [Returned(@) EXCEPT
                   !.pc = NextPc("exec_ret"),
                   !.loc = Set(@, "execution_result", execution_result),
                   !.payload = [summary |-> fl[f].loc.summary,
                                execution_result |-> execution_result]]]
  /\ UNCHANGED <<cur, cbvars, checkpoints, METRICS, obsvars, trader>>

\* return {"flow_id", "status": "completed", "execution"}
Flow_Complete(f) ==
  /\ cur = f /\ fl[f].pc = "notify_ret"
  /\ METRICS' = Count(METRICS, "flows_succeeded")
  /\ AUDIT_LOG' = audit(AUDIT_LOG, "flow_completed",
                        [flow_id |-> fl[f].loc.flow_id,
                         execution_result |-> fl[f].loc.execution_result])
  /\ fl' = [fl EXCEPT ![f] = [Returned(@) EXCEPT
              !.pc = NextPc("notify_ret"), !.payload = Empty, !.query = <<>>, !.loc = Empty,
              !.ret = [flow_id |-> fl[f].loc.flow_id, status |-> "completed",
                       execution |-> fl[f].loc.execution_result]]]
  /\ cur' = 0
  /\ UNCHANGED <<cbvars, stvars, obsvars, trader>>

\* The positions of a running task inside the try block of run_flow.
TryPcs == {"retr", "retr_ret", "enr", "enr_ret", "plan", "plan_ret", "exec", "exec_ret",
           "notify", "notify_ret", "retry_ok", "retry_exc"}

\* The pipeline step a task is in.
StepOf(r) ==
  CASE r.pc \in {"retr", "retr_ret"} -> "retriever"
    [] r.pc \in {"enr", "enr_ret"} -> "enricher"
    [] r.pc \in {"plan", "plan_ret"} -> "planner"
    [] r.pc \in {"exec", "exec_ret"} -> "executor"
    [] r.pc \in {"notify", "notify_ret"} -> "notifier"
    [] r.stage = "fetch" -> "retriever"
    [] r.stage = "llm" -> "enricher"
    [] r.stage = "exec" -> "executor"
    [] r.stage = "notify" -> "notifier"
    [] OTHER -> "none"

except_store_no_rollback(cps, s, name, ticket) == Set(s, KTicket, ticket)

\* self.state.rollback(checkpoint_name); self.state.set("manual_ticket", ...)
except_store(cps, s, name, ticket) == Set(Rollback(cps, s, name), KTicket, ticket)

except_return_reraise(flow_id, e) == [flow_id |-> flow_id, status |-> "raised", reason |-> e.msg]

\* return {"flow_id", "status": "failed", "reason": str(e)}
except_return(flow_id, e) == [flow_id |-> flow_id, status |-> "failed", reason |-> e.msg]

Raised_uncaught(r) ==
  {Exc(FaultMsg, StepOf(r), 0)} \cup (IF r.pc = "retry_exc" THEN {r.exc} ELSE {})

\* The exceptions that can reach run_flow's handler from position r: every
\* agent awaits its tool inside `try: ... except Exception`, so what
\* retry_async raises stays in the agent, and only a fault raised outside those
\* try blocks is left.
Raised(r) == {Exc(FaultMsg, StepOf(r), 0)}

\* except Exception as e: an exception raised outside the agents' own try
\* blocks reaches run_flow's handler.
Flow_Except(f) ==
  /\ cur = f /\ fl[f].pc \in TryPcs
  /\ METRICS.flows_failed < MaxFaults
  /\ \E e \in Raised(fl[f]) :
       LET flow_id == fl[f].loc.flow_id IN
       /\ METRICS' = Count(METRICS, "flows_failed")
       /\ AUDIT_LOG' = audit(audit(AUDIT_LOG, "flow_failed",
                                   [flow_id |-> flow_id, error |-> e.msg]),
                             "checkpoint_rollback", [name |-> CheckpointName(flow_id)])
       /\ store' = except_store(checkpoints, store, CheckpointName(flow_id),
                                [flow_id |-> flow_id, error |-> e.msg])
       /\ fl' = [fl EXCEPT ![f] = [Returned(@) EXCEPT
                   !.pc = "done", !.payload = Empty, !.query = <<>>,
                   !.loc = [raised_in |-> StepOf(fl[f]), start |-> fl[f].loc.start],
                   !.ret = except_return(flow_id, e)]]
  /\ cur' = 0
  /\ cache_obs' = cache_rollback(cache_obs, CheckpointName(f))
  /\ UNCHANGED <<cbvars, checkpoints, cb_obs, st_obs, trader>>

Init ==
  /\ now = 1
  /\ cb = CircuitBreaker(FailThreshold, RecoveryTimeout)
  /\ store = Empty /\ checkpoints = Empty
  /\ fl = [f \in 1..NumFlows |-> Flow0]
  /\ cur = 0 /\ METRICS = Metrics0 /\ AUDIT_LOG = {}
  /\ cb_obs = CbObs0 /\ st_obs = None /\ cache_obs = CacheObs0
  /\ trader = Trader0

Next ==
  \/ \E f \in Procs : StartFlow(f)
  \/ \E f \in Procs : Retr_Run(f)
  \/ \E f \in Procs : Tool_Return(f)
  \/ \E f \in Procs : Tool_Raise(f)
  \/ \E f \in Procs : Backoff_Done(f)
  \/ \E f \in Procs : Retr_Ok(f)
  \/ \E f \in Procs : Retr_Exc(f)
  \/ \E f \in Procs : Flow_AfterRetrieve(f)
  \/ \E f \in Procs : Enr_Run(f)
  \/ \E f \in Procs : Enr_Ok(f)
  \/ \E f \in Procs : Enr_Exc(f)
  \/ \E f \in Procs : Flow_AfterEnrich(f)
  \/ \E f \in Procs : Plan_Run(f)
  \/ \E f \in Procs : Flow_AfterPlan(f)
  \/ \E f \in Procs : Exec_Run(f)
  \/ \E f \in Procs : Exec_Ok(f)
  \/ \E f \in Procs : Exec_Exc(f)
  \/ \E f \in Procs : Flow_AfterExec(f)
  \/ \E f \in Procs : Notify_Run(f)
  \/ \E f \in Procs : Notify_Ok(f)
  \/ \E f \in Procs : Notify_Exc(f)
  \/ \E f \in Procs : Flow_Complete(f)
  \/ \E f \in Procs : Flow_Except(f)

Spec == Init /\ [][Next]_vars

\* ------------------------------------------------- the parallel demo, fair
\* main_demo's gather: flow f is run_flow(parallel_inputs[f]), each input with
\* its own query and idempotency key.
ParallelInputs(f) ==
  [q |-> IF f % 2 = 1 THEN QFraud ELSE QPlain,
   idkey |-> IF f % 2 = 1 THEN "idp-1" ELSE "idp-2"]

D_Start(f) == StartFlowWith(f, ParallelInputs(f).q, ParallelInputs(f).idkey)

FairNext ==
  \/ \E f \in Procs : D_Start(f)
  \/ \E f \in Procs : Retr_Run(f)
  \/ \E f \in Procs : Tool_Return(f)
  \/ \E f \in Procs : Tool_Raise(f)
  \/ \E f \in Procs : Backoff_Done(f)
  \/ \E f \in Procs : Retr_Ok(f)
  \/ \E f \in Procs : Retr_Exc(f)
  \/ \E f \in Procs : Flow_AfterRetrieve(f)
  \/ \E f \in Procs : Enr_Run(f)
  \/ \E f \in Procs : Enr_Ok(f)
  \/ \E f \in Procs : Enr_Exc(f)
  \/ \E f \in Procs : Flow_AfterEnrich(f)
  \/ \E f \in Procs : Plan_Run(f)
  \/ \E f \in Procs : Flow_AfterPlan(f)
  \/ \E f \in Procs : Exec_Run(f)
  \/ \E f \in Procs : Exec_Ok(f)
  \/ \E f \in Procs : Exec_Exc(f)
  \/ \E f \in Procs : Flow_AfterExec(f)
  \/ \E f \in Procs : Notify_Run(f)
  \/ \E f \in Procs : Notify_Ok(f)
  \/ \E f \in Procs : Notify_Exc(f)
  \/ \E f \in Procs : Flow_Complete(f)
  \/ \E f \in Procs : Flow_Except(f)

\* What the event loop and the tools owe a flow: the gathered task is
\* started, a task that can run does run, a tool that was called returns or
\* raises, a sleep ends.  Nothing obliges an unexpected exception to be raised.
Run(f) ==
  \/ D_Start(f)
  \/ Retr_Run(f) \/ Tool_Return(f) \/ Tool_Raise(f) \/ Backoff_Done(f)
  \/ Retr_Ok(f) \/ Retr_Exc(f) \/ Flow_AfterRetrieve(f)
  \/ Enr_Run(f) \/ Enr_Ok(f) \/ Enr_Exc(f) \/ Flow_AfterEnrich(f)
  \/ Plan_Run(f) \/ Flow_AfterPlan(f)
  \/ Exec_Run(f) \/ Exec_Ok(f) \/ Exec_Exc(f) \/ Flow_AfterExec(f)
  \/ Notify_Run(f) \/ Notify_Ok(f) \/ Notify_Exc(f) \/ Flow_Complete(f)

FairSpec == Init /\ [][FairNext]_vars /\ \A f \in 1..NumFlows : WF_vars(Run(f))

\* ------------------------------------------- harness: concurrent Retrievers
\* NumCallers tasks on one Orchestrator's retriever, breaker and store; each
\* calls RetrieverAgent.run up to MaxCalls times while the clock advances.
RetrInit ==
  /\ now = 1
  /\ cb = CircuitBreaker(FailThreshold, RecoveryTimeout)
  /\ store = Empty /\ checkpoints = Empty
  /\ fl = [f \in 1..NumCallers |-> Flow0]
  /\ cur = 0 /\ METRICS = Metrics0 /\ AUDIT_LOG = {}
  /\ cb_obs = CbObs0 /\ st_obs = None /\ cache_obs = CacheObs0
  /\ trader = Trader0

R_Call(f) ==
  /\ cur = 0 /\ fl[f].pc \in {"idle", "done"} /\ fl[f].ncalls < MaxCalls
  /\ \E q \in {QFraud, QPlain} :
       fl' = [fl EXCEPT ![f] = [Flow0 EXCEPT !.pc = "retr", !.query = q,
                                             !.ncalls = fl[f].ncalls + 1,
                                             !.payload = [query |-> q]]]
  /\ cur' = f
  /\ UNCHANGED <<cbvars, stvars, METRICS, AUDIT_LOG, obsvars, trader>>

R_Return(f) ==
  /\ cur = f /\ fl[f].pc = "retr_ret"
  /\ fl' = [fl EXCEPT ![f] = [@ EXCEPT !.pc = "done"]]
  /\ cur' = 0
  /\ UNCHANGED <<cbvars, stvars, METRICS, AUDIT_LOG, obsvars, trader>>

RetrNext ==
  \/ Tick
  \/ \E f \in Procs : R_Call(f)
  \/ \E f \in Procs : Retr_Run(f)
  \/ \E f \in Procs : Tool_Return(f)
  \/ \E f \in Procs : Tool_Raise(f)
  \/ \E f \in Procs : Backoff_Done(f)
  \/ \E f \in Procs : Retr_Ok(f)
  \/ \E f \in Procs : Retr_Exc(f)
  \/ \E f \in Procs : R_Return(f)

RetrSpec == RetrInit /\ [][RetrNext]_vars

\* ----------------------------------- harness: Retrievers beside a third flow
\* The callers of RetrSpec, and beside them one more flow of the Orchestrator,
\* of which only what it does to the store is kept: it starts (the start
\* checkpoint) and it may fail (rollback, then the manual ticket), each while
\* the callers are suspended or between two calls.
OtherFlow == 0

O_Start ==
  /\ cur = 0 /\ CheckpointName(OtherFlow) \notin DOMAIN checkpoints
  /\ checkpoints' = Checkpoint(checkpoints, store, CheckpointName(OtherFlow))
  /\ cache_obs' = cache_checkpoint(cache_obs, CheckpointName(OtherFlow))
  /\ UNCHANGED <<store, cbvars, flvars, cb_obs, st_obs, trader>>

O_Fail ==
  /\ cur = 0 /\ CheckpointName(OtherFlow) \in DOMAIN checkpoints
  /\ KTicket \notin DOMAIN store
  /\ store' = except_store(checkpoints, store, CheckpointName(OtherFlow),
                           [flow_id |-> OtherFlow, error |-> FaultMsg])
  /\ cache_obs' = cache_rollback(cache_obs, CheckpointName(OtherFlow))
  /\ UNCHANGED <<checkpoints, cbvars, flvars, cb_obs, st_obs, trader>>

CacheNext ==
  \/ O_Start
  \/ O_Fail
  \/ \E f \in Procs : R_Call(f)
  \/ \E f \in Procs : Retr_Run(f)
  \/ \E f \in Procs : Tool_Return(f)
  \/ \E f \in Procs : Tool_Raise(f)
  \/ \E f \in Procs : Backoff_Done(f)
  \/ \E f \in Procs : Retr_Ok(f)
  \/ \E f \in Procs : Retr_Exc(f)
  \/ \E f \in Procs : R_Return(f)

CacheSpec == RetrInit /\ [][CacheNext]_vars

\* ------------------------------------- basics/multiagents.py: TraderAgent
\* Prices are whole numbers of currency units; the code draws them with two
\* decimals from 50..1500, and the Analyzer buys only below 1300.
KDecisions == <<"decisions">>
KSnapshot == <<"trader_snapshot">>
Symbols == {"NFLX"}
TradePrices == {1250}
TradeDecisions ==
  {[symbol |-> sym, decision |-> d, price |-> pr] :
     sym \in Symbols, d \in {"buy", "sell", "hold"}, pr \in TradePrices}

SeqsUpTo(S, n) == UNION {[1..k -> S] : k \in 0..n}

Max(a, b) == IF a > b THEN a ELSE b

\* qty = int(min(10, max(1, self.balance // (price * 1.1))))
buy_qty(balance, price) == Min(MaxQty, Max(1, (10 * balance) \div (11 * price)))

\* if qty <= 0 or cost > self.balance * 0.2
buy_blocked(balance, qty, cost) == qty <= 0 \/ 5 * cost > balance

\* handle, entry: decisions = payload.get("decisions") or state.get("decisions", [])
Trade_Run(f) ==
  /\ cur = f /\ fl[f].pc = "trade_in"
  /\ LET given == Get(fl[f].payload, "decisions", <<>>)
         decisions == IF given # <<>> THEN given ELSE Get(store, KDecisions, <<>>) IN
       fl' = [fl EXCEPT ![f] = [@ EXCEPT
                !.pc = "trade",
                !.loc = [decisions |-> decisions, execution_results |-> <<>>]]]
  /\ UNCHANGED <<cur, cbvars, stvars, METRICS, AUDIT_LOG, obsvars, trader>>

\* What one decision leaves of the loop: the result is appended, the next
\* decision is at the head.
trade_next(r, result) ==
  [Returned(r) EXCEPT !.pc = "trade",
                      !.loc = [decisions |-> Tail(r.loc.decisions),
                               execution_results |-> Append(r.loc.execution_results, result)]]

\* retry(mock_place_order, ...) up to its first await: attempt 1 of `retries`
order_call(r, order) ==
  [r EXCEPT !.pc = "owait", !.stage = "order", !.retries = OrderRetries,
            !.attempt = 1, !.calls = 1, !.aloc = order]

\* for d in decisions: one decision, up to its await or to the next decision;
\* after the last one the snapshot is stored and handle returns.
Trade_Step(f) ==
  /\ cur = f /\ fl[f].pc = "trade"
  /\ LET r == fl[f]
         decisions == r.loc.decisions IN
       IF decisions = <<>>
       THEN /\ store' = Set(store, KSnapshot,
                            [balance |-> trader.balance, positions |-> trader.position])
            /\ fl' = [fl EXCEPT ![f] = [@ EXCEPT
                        !.pc = "trade_ret",
                        !.res = Set(Empty, "trader", r.loc.execution_results)]]
            /\ cur' = f
       ELSE LET d == Head(decisions)
                qty == buy_qty(trader.balance, d.price)
                cost == qty * d.price
                held == Get(trader.position, d.symbol, 0) IN
            /\ store' = store
            /\ IF d.decision = "buy"
               THEN IF buy_blocked(trader.balance, qty, cost)
                    THEN /\ fl' = [fl EXCEPT ![f] = trade_next(r, "blocked")]
                         /\ cur' = f
                    ELSE /\ fl' = [fl EXCEPT ![f] =
                                     order_call(r, [action |-> "buy", symbol |-> d.symbol,
                                                    qty |-> qty, price |-> d.price,
                                                    cost |-> cost])]
                         /\ cur' = 0
               ELSE IF d.decision = "sell"
               THEN IF held <= 0
                    THEN /\ fl' = [fl EXCEPT ![f] = trade_next(r, "no_pos")]
                         /\ cur' = f
                    ELSE /\ fl' = [fl EXCEPT ![f] =
                                     order_call(r, [action |-> "sell", symbol |-> d.symbol,
                                                    qty |-> held, price |-> d.price,
                                                    cost |-> 0])]
                         /\ cur' = 0
               ELSE /\ fl' = [fl EXCEPT ![f] = trade_next(r, "hold")]
                    /\ cur' = f
  /\ UNCHANGED <<cbvars, checkpoints, METRICS, AUDIT_LOG, obsvars, trader>>

\* self.balance -= cost; self.position[symbol] = self.position.get(symbol, 0) + qty
trader_bought(t, o) ==
  [balance |-> t.balance - o.cost,
   position |-> Set(t.position, o.symbol, Get(t.position, o.symbol, 0) + o.qty)]

\* proceeds = qty * price; self.balance += proceeds; self.position[symbol] = 0
trader_sold(t, o) ==
  [balance |-> t.balance + o.qty * o.price, position |-> Set(t.position, o.symbol, 0)]

\* mock_place_order returns: retry returns the order and the trade is booked
Order_Return(f) ==
  /\ cur = 0 /\ fl[f].pc = "owait"
  /\ LET o == fl[f].aloc IN
       trader' = IF o.action = "buy" THEN trader_bought(trader, o) ELSE trader_sold(trader, o)
  /\ fl' = [fl EXCEPT ![f] = trade_next(@, "filled")]
  /\ cur' = f
  /\ UNCHANGED <<cbvars, stvars, METRICS, AUDIT_LOG, obsvars>>

\* mock_place_order raises: last_exc = e; await asyncio.sleep(backoff * attempt)
Order_Raise(f) ==
  /\ cur = 0 /\ fl[f].pc = "owait"
  /\ fl' = [fl EXCEPT ![f] = [@ EXCEPT !.pc = "obackoff"]]
  /\ UNCHANGED <<cur, cbvars, stvars, METRICS, AUDIT_LOG, obsvars, trader>>

\* The sleep ends: the next attempt, or after the last one `raise last_exc`,
\* which handle catches: the decision is "failed".
Order_Backoff_Done(f) ==
  /\ cur = 0 /\ fl[f].pc = "obackoff"
  /\ IF fl[f].attempt < fl[f].retries
     THEN /\ fl' = [fl EXCEPT ![f] = [@ EXCEPT !.pc = "owait", !.attempt = @ + 1,
                                              !.calls = @ + 1]]
          /\ cur' = 0
     ELSE /\ fl' = [fl EXCEPT ![f] = trade_next(@, "failed")]
          /\ cur' = f
  /\ UNCHANGED <<cbvars, stvars, METRICS, AUDIT_LOG, obsvars, trader>>

\* --------------------------------------- harness: concurrent trading flows
\* run_parallel_jobs: NumTradeFlows flows of one Orchestrator, gathered; of
\* each flow the call of the shared TraderAgent is kept, with any decisions
\* the Analyzer can have made.
TradeInit ==
  /\ now = 1
  /\ cb = CircuitBreaker(FailThreshold, RecoveryTimeout)
  /\ store = Empty /\ checkpoints = Empty
  /\ fl = [f \in 1..NumTradeFlows |-> Flow0]
  /\ cur = 0 /\ METRICS = Metrics0 /\ AUDIT_LOG = {}
  /\ cb_obs = CbObs0 /\ st_obs = None /\ cache_obs = CacheObs0
  /\ trader = Trader0

Tr_Call(f) ==
  /\ cur = 0 /\ fl[f].pc = "idle"
  /\ \E decisions \in SeqsUpTo(TradeDecisions, MaxDecisions) :
       fl' = [fl EXCEPT ![f] = [@ EXCEPT !.pc = "trade_in",
                                         !.payload = [decisions |-> decisions]]]
  /\ cur' = f
  /\ UNCHANGED <<cbvars, stvars, METRICS, AUDIT_LOG, obsvars, trader>>

Tr_Return(f) ==
  /\ cur = f /\ fl[f].pc = "trade_ret"
  /\ fl' = [fl EXCEPT ![f] = [@ EXCEPT !.pc = "done", !.loc = Empty]]
  /\ cur' = 0
  /\ UNCHANGED <<cbvars, stvars, METRICS, AUDIT_LOG, obsvars, trader>>

TradeNext ==
  \/ \E f \in Procs : Tr_Call(f)
  \/ \E f \in Procs : Trade_Run(f)
  \/ \E f \in Procs : Trade_Step(f)
  \/ \E f \in Procs : Order_Return(f)
  \/ \E f \in Procs : Order_Raise(f)
  \/ \E f \in Procs : Order_Backoff_Done(f)
  \/ \E f \in Procs : Tr_Return(f)

TradeSpec == TradeInit /\ [][TradeNext]_vars

\* ------------------------------------------- harness: Executor in sequence
\* ExecutorAgent.run called NumExecCalls times, one call after the other, on
\* one StateStore, each with any plan and any idempotency key (or none).
ExecPlans ==
  {[decision |-> d, summary_snippet |-> Snippet(<<"LLM_SUMMARY", Prompt(Docs(QFraud, 1))>>)] :
     d \in {"inform", "escalate", "recommend_trade"}}

ExecInit ==
  /\ now = 1
  /\ cb = CircuitBreaker(FailThreshold, RecoveryTimeout)
  /\ store = Empty /\ checkpoints = Empty
  /\ fl = [f \in 1..NumExecCalls |-> Flow0]
  /\ cur = 0 /\ METRICS = Metrics0 /\ AUDIT_LOG = {}
  /\ cb_obs = CbObs0 /\ st_obs = None /\ cache_obs = CacheObs0
  /\ trader = Trader0

X_Call(f) ==
  /\ cur = 0 /\ fl[f].pc = "idle"
  /\ \A g \in Procs : g < f => fl[g].pc = "done"
  /\ \E plan \in ExecPlans, key \in Keys \cup {None} :
       fl' = [fl EXCEPT ![f] = [@ EXCEPT !.pc = "exec", !.key = key,
                                         !.payload = [plan |-> plan, idempotency_key |-> key]]]
  /\ cur' = f
  /\ UNCHANGED <<cbvars, stvars, METRICS, AUDIT_LOG, obsvars, trader>>

X_Return(f) ==
  /\ cur = f /\ fl[f].pc = "exec_ret"
  /\ fl' = [fl EXCEPT ![f] = [@ EXCEPT !.pc = "done"]]
  /\ cur' = 0
  /\ UNCHANGED <<cbvars, stvars, METRICS, AUDIT_LOG, obsvars, trader>>

ExecNext ==
  \/ \E f \in Procs : X_Call(f)
  \/ \E f \in Procs : Exec_Run(f)
  \/ \E f \in Procs : Tool_Return(f)
  \/ \E f \in Procs : Tool_Raise(f)
  \/ \E f \in Procs : Backoff_Done(f)
  \/ \E f \in Procs : Exec_Ok(f)
  \/ \E f \in Procs : Exec_Exc(f)
  \/ \E f \in Procs : X_Return(f)

ExecSpec == ExecInit /\ [][ExecNext]_vars

\* ------------------------------------------------------ unit: retry_async
\* retry_async called by NumRetryCallers concurrent tasks, each with any
\* retries in 0..MaxRetries, around an operation that fails or succeeds at will.
RetryInit ==
  /\ now = 1
  /\ cb = CircuitBreaker(FailThreshold, RecoveryTimeout)
  /\ store = Empty /\ checkpoints = Empty
  /\ fl = [f \in 1..NumRetryCallers |-> Flow0]
  /\ cur = 0 /\ METRICS = Metrics0 /\ AUDIT_LOG = {}
  /\ cb_obs = CbObs0 /\ st_obs = None /\ cache_obs = CacheObs0
  /\ trader = Trader0

Y_Call(f) ==
  /\ cur = 0 /\ fl[f].pc = "idle"
  /\ \E retries \in 0..MaxRetries :
       fl' = [fl EXCEPT ![f] = retry_call(@, "op", <<>>, retries)]
  /\ UNCHANGED <<cur, cbvars, stvars, METRICS, AUDIT_LOG, obsvars, trader>>

\* retry_async has returned or raised: the caller records which and ends
Y_Return(f) ==
  /\ cur = f /\ fl[f].pc \in {"retry_ok", "retry_exc"} /\ fl[f].stage = "op"
  /\ fl' = [fl EXCEPT ![f] = [@ EXCEPT !.pc = "done",
                                       !.ret = [raised |-> (fl[f].pc = "retry_exc")]]]
  /\ cur' = 0
  /\ UNCHANGED <<cbvars, stvars, METRICS, AUDIT_LOG, obsvars, trader>>

RetryNext ==
  \/ \E f \in Procs : Y_Call(f)
  \/ \E f \in Procs : Tool_Return(f)
  \/ \E f \in Procs : Tool_Raise(f)
  \/ \E f \in Procs : Backoff_Done(f)
  \/ \E f \in Procs : Y_Return(f)

RetrySpec == RetryInit /\ [][RetryNext]_vars

\* --------------------------------------------- unit: retry_async, with time
\* One call of retry_async with any retries in 0..MaxRetries, the
\* initial_backoff of the agents (0.2 s, 0.3 s), max_backoff 5.0 s or 0.5 s,
\* around an operation that fails or succeeds at will, the jitter of each
\* attempt being drawn on its own.
TimedInit ==
  /\ now = 1
  /\ cb = CircuitBreaker(FailThreshold, RecoveryTimeout)
  /\ store = Empty /\ checkpoints = Empty
  /\ fl = [f \in 1..NumTimedCallers |-> Flow0]
  /\ cur = 0 /\ METRICS = Metrics0 /\ AUDIT_LOG = {}
  /\ cb_obs = CbObs0 /\ st_obs = None /\ cache_obs = CacheObs0
  /\ trader = Trader0

T_Call(f) ==
  /\ cur = 0 /\ fl[f].pc = "idle"
  /\ \E retries \in 0..MaxRetries, initial_backoff \in InitialBackoffs,
        max_backoff \in MaxBackoffs :
       fl' = [fl EXCEPT ![f] =
                retry_call([@ EXCEPT !.aloc = [initial_backoff |-> initial_backoff,
                                               max_backoff |-> max_backoff,
                                               sleeps |-> <<>>]],
                           "op", <<>>, retries)]
  /\ UNCHANGED <<cur, cbvars, stvars, METRICS, AUDIT_LOG, obsvars, trader>>

TimedNext ==
  \/ \E f \in Procs : T_Call(f)
  \/ \E f \in Procs : Tool_Return(f)
  \/ \E f \in Procs : Tool_Raise_Timed(f)
  \/ \E f \in Procs : Backoff_Done(f)
  \/ \E f \in Procs : Y_Return(f)

TimedSpec == TimedInit /\ [][TimedNext]_vars

\* ---------------------------------------------------- harness: the Planners
\* Both PlannerAgent.run are called with every summary the pipeline can build
\* from the queries (LLM summary or naive summary of the documents), with the
\* empty summary, and with no summary at all.
Summaries ==
  {<<>>} \cup {<<"LLM_SUMMARY", Prompt(Docs(q, n))>> : q \in Queries, n \in 1..MaxDocs}
         \cup {Naive(Docs(q, n)) : q \in Queries, n \in 1..MaxDocs}

PlanInit ==
  /\ now = 1
  /\ cb = CircuitBreaker(FailThreshold, RecoveryTimeout)
  /\ store = Empty /\ checkpoints = Empty
  /\ fl = [f \in 1..NumPlanCallers |-> Flow0]
  /\ cur = 0 /\ METRICS = Metrics0 /\ AUDIT_LOG = {}
  /\ cb_obs = CbObs0 /\ st_obs = None /\ cache_obs = CacheObs0
  /\ trader = Trader0

P_Call(f) ==
  /\ cur = 0 /\ fl[f].pc = "idle"
  /\ \E payload \in {Empty} \cup {[summary |-> t] : t \in Summaries}, pc \in {"plan", "plan2"} :
       fl' = [fl EXCEPT ![f] = [@ EXCEPT !.pc = pc, !.payload = payload]]
  /\ cur' = f
  /\ UNCHANGED <<cbvars, stvars, METRICS, AUDIT_LOG, obsvars, trader>>

P_Return(f) ==
  /\ cur = f /\ fl[f].pc \in {"plan_ret", "plan2_ret"}
  /\ fl' = [fl EXCEPT ![f] = [@ EXCEPT !.pc = "done"]]
  /\ cur' = 0
  /\ UNCHANGED <<cbvars, stvars, METRICS, AUDIT_LOG, obsvars, trader>>

PlanNext ==
  \/ \E f \in Procs : P_Call(f)
  \/ \E f \in Procs : Plan_Run(f)
  \/ \E f \in Procs : Plan2_Run(f)
  \/ \E f \in Procs : P_Return(f)

PlanSpec == PlanInit /\ [][PlanNext]_vars

\* ------------------------------------------------- unit: the CircuitBreaker
\* One breaker, any threshold and timeout, driven by arbitrary calls of its
\* three methods while the clock advances.
CBInit ==
  /\ now = 1
  /\ cb \in {CircuitBreaker(th, to) : th \in 1..MaxThreshold, to \in 1..MaxTimeout}
  /\ store = Empty /\ checkpoints = Empty
  /\ fl = <<>> /\ cur = 0 /\ METRICS = Metrics0 /\ AUDIT_LOG = {}
  /\ cb_obs = CbObs0
  /\ st_obs = None /\ cache_obs = CacheObs0
  /\ trader = Trader0

CB_RecordFailure ==
  /\ cb.fails < MaxFails
  /\ cb' = record_failure(cb, now)
  /\ cb_obs' = [cb_obs EXCEPT !.consec = @ + 1, !.last_fail = now,
                              !.last_op = "record_failure", !.polls = 0]
  /\ UNCHANGED <<now, stvars, flvars, st_obs, cache_obs, trader>>

CB_RecordSuccess ==
  /\ cb' = record_success(cb)
  /\ cb_obs' = [cb_obs EXCEPT !.consec = 0, !.last_op = "record_success", !.polls = 0]
  /\ UNCHANGED <<now, stvars, flvars, st_obs, cache_obs, trader>>

CB_IsOpen ==
  LET r == is_open(cb, now) IN
  /\ cb' = r.self
  /\ cb_obs' = [cb_obs EXCEPT !.ret = r.ret, !.last_op = "is_open",
                              !.polls = IF @ < MaxPolls THEN @ + 1 ELSE @]
  /\ UNCHANGED <<now, stvars, flvars, st_obs, cache_obs, trader>>

CBNext == Tick \/ CB_RecordFailure \/ CB_RecordSuccess \/ CB_IsOpen

CBSpec == CBInit /\ [][CBNext]_vars

\* ----------------------------------------------------- unit: the StateStore
\* One store, driven by arbitrary calls of set, checkpoint and rollback.
\* st_obs.taken[name] is the content of the store when checkpoint(name) was
\* last called, st_obs.pre the store before the last call.
StKeys == {<<"cached_docs">>, <<"last_summary">>, <<"exec_done", "idp-1">>}
StVals == {"v1", "v2"}
StNames == {<<"start", 1>>, <<"start", 2>>}

StObs0 == [ops |-> 0, last |-> <<"none">>, pre |-> Empty, taken |-> Empty]

StoreInit ==
  /\ now = 1
  /\ cb = CircuitBreaker(FailThreshold, RecoveryTimeout)
  /\ store = Empty /\ checkpoints = Empty
  /\ fl = <<>> /\ cur = 0 /\ METRICS = Metrics0 /\ AUDIT_LOG = {}
  /\ cb_obs = CbObs0
  /\ st_obs = StObs0 /\ cache_obs = CacheObs0
  /\ trader = Trader0

St_Set ==
  \E k \in StKeys, v \in StVals :
    /\ st_obs.ops < MaxOps
    /\ store' = Set(store, k, v)
    /\ st_obs' = [st_obs EXCEPT !.ops = @ + 1, !.last = <<"set", k>>, !.pre = store]
    /\ UNCHANGED <<checkpoints, cbvars, flvars, cb_obs, cache_obs, trader>>

St_Checkpoint ==
  \E n \in StNames :
    /\ st_obs.ops < MaxOps
    /\ checkpoints' = Checkpoint(checkpoints, store, n)
    /\ st_obs' = [st_obs EXCEPT !.ops = @ + 1, !.last = <<"checkpoint", n>>, !.pre = store,
                                !.taken = [m \in DOMAIN @ \cup {n} |->
                                             IF m = n THEN store ELSE @[m]]]
    /\ UNCHANGED <<store, cbvars, flvars, cb_obs, cache_obs, trader>>

St_Rollback ==
  \E n \in StNames :
    /\ st_obs.ops < MaxOps
    /\ store' = Rollback(checkpoints, store, n)
    /\ st_obs' = [st_obs EXCEPT !.ops = @ + 1, !.last = <<"rollback", n>>, !.pre = store]
    /\ UNCHANGED <<checkpoints, cbvars, flvars, cb_obs, cache_obs, trader>>

StoreNext == St_Set \/ St_Checkpoint \/ St_Rollback

StoreSpec == StoreInit /\ [][StoreNext]_vars

\* ------------------------------------------------------------------ claims

\* C1: a breaker that starts closed reports open exactly from its
\* fail_threshold-th consecutive record_failure() on (never after fewer), and
\* keeps reporting open until recovery_timeout has passed since the last
\* failure; is_open() itself never changes the breaker.
C1_OpenExactlyAtThreshold ==
  /\ [](is_open(cb, now).ret <=>
          (/\ cb_obs.consec >= cb.fail_threshold
           /\ now < cb_obs.last_fail + cb.recovery_timeout))
  /\ [][cb_obs'.last_op = "is_open" => cb' = cb]_vars

C1_Witness ==
  /\ cb.fail_threshold >= 2
  /\ cb_obs.consec = cb.fail_threshold
  /\ cb_obs.last_op = "is_open" /\ cb_obs.polls >= 2 /\ cb_obs.ret
  /\ now > cb_obs.last_fail

\* C5: after rollback(name), the live store holds exactly the pairs it held
\* when checkpoint(name) was called, whatever set() calls came in between.
C5_RollbackRestoresCheckpoint ==
  (st_obs.last[1] = "rollback" /\ st_obs.last[2] \in DOMAIN st_obs.taken)
    => store = st_obs.taken[st_obs.last[2]]

C5_Witness ==
  /\ st_obs.last[1] = "rollback" /\ st_obs.last[2] \in DOMAIN st_obs.taken
  /\ \E k \in DOMAIN st_obs.pre : k \notin DOMAIN store
  /\ \E k \in DOMAIN store : k \in DOMAIN st_obs.pre /\ st_obs.pre[k] # store[k]

\* C2 as stated: two calls of ExecutorAgent.run in sequence with the same
\* idempotency key and the same plan return identical results, and
\* tool_send_alert succeeds at most once over both.
SameCall(f, g) ==
  /\ f < g /\ fl[f].pc = "done" /\ fl[g].pc = "done"
  /\ fl[f].key # None /\ fl[f].key = fl[g].key
  /\ fl[f].payload.plan = fl[g].payload.plan

C3_RecordsStay ==
  [][\A k \in Keys :
       KExec(k) \in DOMAIN store
         => (KExec(k) \in DOMAIN store' /\ store'[KExec(k)] = store[KExec(k)])]_vars

\* C4: while the breaker is open, no task calls tool_fetch_documents.
C4_NoFetchWhileOpen ==
  [][\A f \in Procs :
       (fl'[f].pc = "wait" /\ fl[f].pc # "wait" /\ fl'[f].stage = "fetch")
         => ~is_open(cb, now).ret]_vars

\* C8: an exception that escapes a pipeline step is handled inside run_flow:
\* the store becomes the flow's start checkpoint plus the manual_ticket, a
\* flow_failed entry is logged, the result has status "failed"; and every
\* result a caller gets has status "completed" or "failed".
EndsByException(f) ==
  fl[f].pc \in TryPcs /\ fl'[f].pc = "done" /\ fl[f].pc # "notify_ret"

C8_ExceptionBecomesFailedResult ==
  /\ [](\A f \in Procs : fl[f].pc = "done" => fl[f].ret.status \in {"completed", "failed"})
  /\ [][\A f \in Procs :
          EndsByException(f) =>
            /\ store' = Set(checkpoints[CheckpointName(f)], KTicket,
                            [flow_id |-> f, error |-> FaultMsg])
            /\ [event |-> "flow_failed", flow_id |-> f] \in AUDIT_LOG'
            /\ fl'[f].ret = [flow_id |-> f, status |-> "failed", reason |-> FaultMsg]]_vars

C8_Witness ==
  \E f \in Procs :
    /\ fl[f].pc = "done" /\ fl[f].ret.status = "failed"
    /\ fl[f].loc.raised_in = "enricher"
    /\ KCached \in DOMAIN fl[f].loc.start /\ KTicket \in DOMAIN store
    /\ [event |-> "flow_failed", flow_id |-> f] \in AUDIT_LOG

\* C9: when a flow fails by an exception in its Executor step, the store right
\* after is what it was when the flow started, plus the manual_ticket:
\* cached_docs, last_summary and last_plan are as before the flow, or absent.
C9_NoPartialStateAfterFailure ==
  [][\A f \in Procs :
       (EndsByException(f) /\ StepOf(fl[f]) = "executor") =>
         /\ store' = Set(fl[f].loc.start, KTicket, store'[KTicket])
         /\ \A k \in {KCached, KSummary, KPlan} :
              /\ k \in DOMAIN store' <=> k \in DOMAIN fl[f].loc.start
              /\ k \in DOMAIN store' => store'[k] = fl[f].loc.start[k]]_vars

C9_Witness ==
  \E f \in Procs :
    /\ fl[f].pc = "done" /\ fl[f].ret.status = "failed"
    /\ fl[f].loc.raised_in = "executor"
    /\ KPlan \notin DOMAIN store /\ KCached \in DOMAIN store
    /\ store = Set(fl[f].loc.start, KTicket, store[KTicket])

\* C10: an agent's ok=false never ends a flow: from an agent's return the flow
\* goes to the next step (or, by an unexpected exception only, to "failed"),
\* and a flow that is done is "completed" unless such an exception was raised.
\* With no documents fetched and none cached the Enricher returns ok=false with
\* error "no_docs", the Planner gets the empty summary and decides "inform".
C10_Degraded(f) ==
  /\ (fl[f].pc = "done" /\ fl[f].ret.status # "completed") => fl[f].ret.reason = FaultMsg
  /\ (fl[f].pc = "retr_ret" /\ ~fl[f].res["retriever"].ok /\ KCached \notin DOMAIN store)
       => fl[f].res["retriever"].data.docs = <<>>
  /\ (fl[f].pc = "enr_ret" /\ fl[f].payload.docs = <<>>)
       => fl[f].res["enricher"] = AgentResult(FALSE, [enriched |-> <<>>], "no_docs")
  /\ (fl[f].pc = "plan_ret" /\ fl[f].payload.summary = <<>>)
       => fl[f].res["planner"].data.plan.decision = "inform"

C10_FailureDoesNotAbort ==
  /\ [](\A f \in Procs : C10_Degraded(f))
  /\ [][\A f \in Procs :
          (fl[f].pc \in {"retr_ret", "enr_ret", "plan_ret", "exec_ret", "notify_ret"}
             /\ fl'[f] # fl[f]) =>
            \/ /\ fl'[f].pc = NextPc(fl[f].pc)
               /\ fl'[f].pc = "done" => fl'[f].ret.status = "completed"
               /\ (fl[f].pc = "enr_ret" /\ ~fl[f].res["enricher"].ok
                     /\ fl[f].res["enricher"].error = "no_docs")
                    => fl'[f].payload.summary = <<>>
            \/ /\ fl'[f].pc = "done"
               /\ fl'[f].ret.status = "failed" /\ fl'[f].ret.reason = FaultMsg]_vars

C10_Witness ==
  \E f \in Procs :
    /\ fl[f].pc = "done" /\ fl[f].ret.status = "completed"
    /\ fl[f].ret.execution = Dict([status |-> "no_action"])
    /\ \A g \in Procs \ {f} : fl[g].pc = "idle"
    /\ KCached \notin DOMAIN store
    /\ store[KPlan].summary_snippet = <<>>
    /\ KPending \in DOMAIN store

\* C11: within one flow the steps run in the order Retriever, Enricher,
\* Planner, Executor, Notifier: a flow enters a step only from the return of
\* the step before it, with that step's AgentResult in hand (the Retriever:
\* only from the start of the flow), whatever the other flows are doing.
StepRank(step) ==
  CASE step = "retriever" -> 1
    [] step = "enricher" -> 2
    [] step = "planner" -> 3
    [] step = "executor" -> 4
    [] step = "notifier" -> 5
    [] OTHER -> 0

C11_StepsInPipelineOrder ==
  [][\A f \in Procs :
       LET a == StepOf(fl[f])
           b == StepOf(fl'[f]) IN
       (b # a /\ b # "none") =>
         \/ a = "none" /\ fl[f].pc = "idle" /\ b = "retriever"
         \/ /\ a # "none" /\ StepRank(b) = StepRank(a) + 1
            /\ fl[f].pc \in {"retr_ret", "enr_ret", "plan_ret", "exec_ret"}
            /\ a \in DOMAIN fl[f].res
            /\ fl[f].res[a].ok \in BOOLEAN]_vars

C11_Witness ==
  \E f, g \in Procs :
    /\ fl[f].pc = "notify" /\ fl[f].loc.execution_result # NoneV
    /\ StepOf(fl[g]) = "enricher" /\ fl[g].pc = "backoff"

\* C12: two flows with distinct idempotency keys, run concurrently on one
\* Orchestrator with no unexpected exception raised and neither Executor out
\* of retries, both end "completed", and the store then holds under each key
\* the result that flow's own Executor produced.
C12_IndependentRecords ==
  \A f, g \in Procs :
    (/\ f # g /\ fl[f].pc = "done" /\ fl[g].pc = "done"
     /\ fl[f].key # fl[g].key
     /\ METRICS.flows_failed = 0
     /\ fl[f].ret.execution # NoneV /\ fl[g].ret.execution # NoneV)
    => /\ fl[f].ret.status = "completed" /\ fl[g].ret.status = "completed"
       /\ KExec(fl[f].key) \in DOMAIN store /\ KExec(fl[g].key) \in DOMAIN store
       /\ store[KExec(fl[f].key)] = fl[f].ret.execution
       /\ store[KExec(fl[g].key)] = fl[g].ret.execution

C12_Witness ==
  \E f, g \in Procs :
    /\ f # g /\ fl[f].pc = "done" /\ fl[g].pc = "done"
    /\ fl[f].key # fl[g].key /\ METRICS.flows_succeeded = 2
    /\ store[KExec(fl[f].key)] = Dict([status |-> "escalated", ticket_id |-> 1])
    /\ store[KExec(fl[g].key)] = Dict([status |-> "no_action"])
    /\ fl[f].ret.execution = store[KExec(fl[f].key)]
    /\ fl[g].ret.execution = store[KExec(fl[g].key)]

\* C13: a snapshot, once taken, never changes: a checkpoint that exists keeps
\* its content in every step (set, rollback, another flow's checkpoint or
\* failure), so a flow's checkpoint start_<flow_id> always holds the store
\* as it was when that flow started.
C13_SnapshotImmutable ==
  /\ [](\A f \in Procs :
          "start" \in DOMAIN fl[f].loc =>
            /\ CheckpointName(f) \in DOMAIN checkpoints
            /\ checkpoints[CheckpointName(f)] = fl[f].loc.start)
  /\ [][\A n \in DOMAIN checkpoints :
          n \in DOMAIN checkpoints' /\ checkpoints'[n] = checkpoints[n]]_vars

C13_Witness ==
  \E f, g \in Procs :
    /\ f # g
    /\ fl[g].pc = "done" /\ fl[g].ret.status = "failed"
    /\ fl[f].pc = "exec_ret"
    /\ checkpoints[CheckpointName(f)] # Empty
    /\ checkpoints[CheckpointName(f)] # checkpoints[CheckpointName(g)]
    /\ KTicket \in DOMAIN store /\ KPlan \in DOMAIN store
    /\ checkpoints[CheckpointName(f)] = fl[f].loc.start

\* C14: a RetrieverAgent.run that starts while the breaker is open returns at
\* once, ok=true with source "cache" and the cached_docs of that moment (or the
\* empty list), calls no fetch, and leaves the breaker (failure count and
\* open-until time) and the store as they were.
C14_OpenBreakerServesCache ==
  [][\A f \in Procs :
       (fl[f].pc = "retr" /\ fl'[f].pc # "retr" /\ is_open(cb, now).ret) =>
         /\ fl'[f].pc = "retr_ret" /\ cur' = f
         /\ fl'[f].res["retriever"] =
              AgentResult(TRUE, [docs |-> IF KCached \in DOMAIN store THEN store[KCached] ELSE <<>>,
                                 source |-> "cache"], None)
         /\ fl'[f].calls = 0
         /\ cb' = cb /\ store' = store]_vars

C14_Witness ==
  \E f \in Procs :
    /\ fl[f].pc = "retr_ret" /\ fl[f].calls = 0
    /\ fl[f].res["retriever"].data.source = "cache"
    /\ fl[f].res["retriever"].data.docs # <<>>
    /\ cb.fails = cb.fail_threshold /\ now < cb.open_until

\* C15: a RetrieverAgent.run whose fetch failed on every attempt records one
\* breaker failure for the whole run: the attempts and backoffs of the retry
\* loop leave the breaker alone, and the run then adds exactly one failure,
\* leaves the store (cached_docs) unchanged and returns ok=false with a
\* non-empty error and docs = the cached value of that moment, or the empty list.
C15_OneFailurePerRun ==
  [][\A f \in Procs :
       /\ (fl[f].stage = "fetch" /\ fl[f].pc \in {"wait", "backoff"} /\ fl'[f] # fl[f])
            => cb' = cb /\ store' = store
       /\ (fl[f].stage = "fetch" /\ fl[f].pc = "retry_exc" /\ fl'[f] # fl[f]) =>
            /\ fl[f].calls = FetchRetries + 1 /\ fl[f].oks = 0
            /\ cb'.fails = cb.fails + 1
            /\ store' = store
            /\ fl'[f].pc = "retr_ret"
            /\ ~fl'[f].res["retriever"].ok
            /\ fl'[f].res["retriever"].error \notin {"", None}
            /\ fl'[f].res["retriever"].data.docs =
                 (IF KCached \in DOMAIN store THEN store[KCached] ELSE <<>>)]_vars

C15_Witness ==
  \E f \in Procs :
    /\ fl[f].pc = "retr_ret" /\ ~fl[f].res["retriever"].ok
    /\ fl[f].calls = FetchRetries + 1
    /\ fl[f].res["retriever"].data.docs # <<>>
    /\ fl[f].res["retriever"].data.docs = store[KCached]
    /\ cb.fails = 1 /\ cb.open_until = 0

\* C16: the breaker is shared: in every state its failure counter is the
\* number of Retriever runs, of any task, that ran out of retries since the
\* last successful fetch; a successful fetch sets the counter to zero and
\* clears the open-until time.
C16_SharedFailureCount ==
  /\ [](cb.fails = cb_obs.consec)
  /\ [][\A f \in Procs :
          (fl[f].stage = "fetch" /\ fl[f].pc = "retry_ok" /\ fl'[f] # fl[f])
            => cb'.fails = 0 /\ cb'.open_until = 0]_vars

C16_Witness ==
  \E f, g \in Procs :
    /\ f # g
    /\ fl[f].pc = "done" /\ ~fl[f].res["retriever"].ok /\ fl[f].ncalls = 2
    /\ fl[g].pc = "retr_ret" /\ ~fl[g].res["retriever"].ok /\ fl[g].ncalls = 1
    /\ cb.fails = 2 /\ cb_obs.consec = 2

C18_ReplayCheckedFirst ==
  [][\A f \in Procs :
       (/\ fl[f].pc = "exec" /\ fl'[f] # fl[f]
        /\ "idempotency_key" \in DOMAIN fl[f].payload
        /\ fl[f].payload.idempotency_key # None
        /\ KExec(fl[f].payload.idempotency_key) \in DOMAIN store) =>
         /\ fl'[f].pc = "exec_ret" /\ cur' = f
         /\ fl'[f].res["executor"] =
              AgentResult(TRUE, [result |-> Str("already_executed"),
                                 idempotency_key |-> fl[f].payload.idempotency_key], None)
         /\ fl'[f].calls = 0
         /\ store' = store]_vars

C18_Witness ==
  \E f \in Procs :
    /\ fl[f].pc = "exec_ret" /\ fl[f].calls = 0
    /\ fl[f].payload.plan.decision = "escalate"
    /\ fl[f].res["executor"].data.result = Str("already_executed")
    /\ store[KExec(fl[f].key)] = Dict([status |-> "no_action"])

\* C19: when tool_send_alert failed on every attempt, ExecutorAgent.run returns
\* ok=false and has written no record under the key; so a later run with the
\* same key, none before it having succeeded, is not answered
\* "already_executed": it calls the tool again when its plan asks for one.
NoEarlierSuccess(g) ==
  /\ fl[g].key # None
  /\ \E f \in Procs : f < g /\ fl[f].key = fl[g].key
  /\ \A h \in Procs : (h < g /\ fl[h].key = fl[g].key) => ~fl[h].res["executor"].ok

C19_FailureLeavesNoRecord ==
  /\ [](\A g \in Procs :
          (fl[g].pc \in {"exec_ret", "done"} /\ NoEarlierSuccess(g)) =>
            /\ fl[g].res["executor"].data.result # Str("already_executed")
            /\ fl[g].payload.plan.decision \in {"escalate", "recommend_trade"}
                 => fl[g].calls >= 1)
  /\ [][\A f \in Procs :
          (fl[f].stage = "exec" /\ fl[f].pc = "retry_exc" /\ fl'[f] # fl[f]) =>
            /\ fl[f].calls = AlertRetries + 1 /\ fl[f].oks = 0
            /\ fl'[f].pc = "exec_ret"
            /\ ~fl'[f].res["executor"].ok
            /\ fl'[f].res["executor"].data.result = NoneV
            /\ store' = store
            /\ KExec(fl[f].aloc.idempotency_key) \notin DOMAIN store']_vars

C19_Witness ==
  \E f, g \in Procs :
    /\ f < g /\ fl[f].pc = "done" /\ fl[g].pc = "done"
    /\ fl[f].key # None /\ fl[f].key = fl[g].key
    /\ ~fl[f].res["executor"].ok /\ fl[f].calls = AlertRetries + 1
    /\ fl[g].res["executor"].ok /\ fl[g].oks = 1
    /\ store[KExec(fl[g].key)] = fl[g].res["executor"].data.result
    /\ fl[g].res["executor"].data.result = Dict([status |-> "trade_executed", order_id |-> 1])

\* C20: when the send failed on every attempt, NotifierAgent.run does not
\* raise: it returns ok=false, having stored pending_notification with the
\* message; and the flow, unless an unexpected exception is raised in it,
\* then ends "completed".
C20_NotifierFailureIsQueued ==
  [][\A f \in Procs :
       /\ (fl[f].stage = "notify" /\ fl[f].pc = "retry_exc" /\ fl'[f].pc # "done"
              /\ fl'[f] # fl[f]) =>
            /\ fl[f].calls = AlertRetries + 1 /\ fl[f].oks = 0
            /\ fl'[f].pc = "notify_ret"
            /\ fl'[f].res["notifier"] =
                 AgentResult(FALSE, [notified |-> FALSE], ToolError("notify"))
            /\ KPending \in DOMAIN store'
            /\ store'[KPending].message = fl[f].aloc.message
            /\ \A k \in DOMAIN store : k # KPending => (k \in DOMAIN store' /\ store'[k] = store[k])
       /\ (fl[f].pc = "notify_ret" /\ ~fl[f].res["notifier"].ok /\ fl'[f] # fl[f]
              /\ METRICS'.flows_failed = METRICS.flows_failed) =>
            /\ fl'[f].pc = "done"
            /\ fl'[f].ret = [flow_id |-> f, status |-> "completed",
                             execution |-> fl[f].loc.execution_result]
            /\ METRICS'.flows_succeeded = METRICS.flows_succeeded + 1]_vars

C20_Witness ==
  \E f \in Procs :
    /\ fl[f].pc = "done" /\ fl[f].ret.status = "completed"
    /\ fl[f].ret.execution = Dict([status |-> "escalated", ticket_id |-> 1])
    /\ \A g \in Procs \ {f} : fl[g].pc = "idle"
    /\ KPending \in DOMAIN store
    /\ store[KPending].message[2] = fl[f].ret.execution
    /\ KReview \notin DOMAIN store

\* C21: the Planner has no failure path and gives every summary exactly one
\* action: "escalate" when the summary holds an escalation keyword, also if
\* it holds an opportunity keyword too; the trade action when it holds an
\* opportunity keyword and no escalation keyword; "inform" when it holds
\* neither, as the empty summary does.  The same for the Planner of
\* day3bestmultiagent.py with its keyword lists.
Holds(summary, keywords) ==
  \E w \in WordsOf(summary) : KeywordsOfWord(Lower(w)) \cap keywords # {}

Expected(summary, esc, opp, trade) ==
  CASE Holds(summary, esc) -> "escalate"
    [] ~Holds(summary, esc) /\ Holds(summary, opp) -> trade
    [] ~Holds(summary, esc) /\ ~Holds(summary, opp) -> "inform"

C21_PlannerDecision ==
  \A f \in Procs :
    LET summary == IF "summary" \in DOMAIN fl[f].payload THEN fl[f].payload.summary ELSE <<>> IN
    /\ fl[f].pc = "plan_ret" =>
         /\ fl[f].res["planner"].ok /\ fl[f].res["planner"].error = None
         /\ fl[f].res["planner"].data.plan.decision =
              Expected(summary, {"alert", "fraud", "risk", "urgent"},
                       {"opportunity", "buy", "recommend"}, "recommend_trade")
         /\ summary = <<>> => fl[f].res["planner"].data.plan.decision = "inform"
         /\ store[KPlan] = fl[f].res["planner"].data.plan
    /\ fl[f].pc = "plan2_ret" =>
         /\ fl[f].res["planner"].plan.action =
              Expected(summary, {"risk", "alert", "urgent"}, {"recommend", "buy"}, "trade")
         /\ summary = <<>> => fl[f].res["planner"].plan.action = "inform"

C21_Witness ==
  \E f, g \in Procs :
    /\ fl[f].pc = "done" /\ fl[g].pc = "plan_ret"
    /\ fl[f].payload = [summary |-> Naive(Docs(QBoth, 1))]
    /\ fl[f].res["planner"].data.plan.decision = "escalate"
    /\ fl[g].payload = [summary |-> <<"LLM_SUMMARY", Prompt(Docs(QBuy, 1))>>]
    /\ fl[g].res["planner"].data.plan.decision = "recommend_trade"

\* C22 as stated: every AgentResult an agent returns has a non-empty error when
\* ok is false, and its data holds the field the next step consumes (docs,
\* summary, plan, result), the Executor's result not being None.
ErrorGiven(res) == ~res.ok => res.error \notin {None, ""}

Carries(res, field) == field \in DOMAIN res.data

C22_ResultsCarryData ==
  \A f \in Procs :
    /\ fl[f].pc = "retr_ret" =>
         ErrorGiven(fl[f].res["retriever"]) /\ Carries(fl[f].res["retriever"], "docs")
    /\ fl[f].pc = "enr_ret" =>
         ErrorGiven(fl[f].res["enricher"]) /\ Carries(fl[f].res["enricher"], "summary")
    /\ fl[f].pc = "plan_ret" =>
         ErrorGiven(fl[f].res["planner"]) /\ Carries(fl[f].res["planner"], "plan")
    /\ fl[f].pc = "exec_ret" =>
         /\ ErrorGiven(fl[f].res["executor"]) /\ Carries(fl[f].res["executor"], "result")
         /\ fl[f].res["executor"].data.result # NoneV
    /\ fl[f].pc = "notify_ret" => ErrorGiven(fl[f].res["notifier"])

\* C23: EnricherAgent.run fails fast on empty docs: the step it takes with no
\* documents returns ok=false with error "no_docs" at once: no call of the LLM
\* tool, no suspension (the task keeps the processor, so no sleep), and the
\* StateStore, the checkpoints and the audit log are as they were.
C23_NoDocsFailsFast ==
  [][\A f \in Procs :
       (/\ cur = f /\ fl[f].pc = "enr"
        /\ Get(fl[f].payload, "docs", <<>>) = <<>>
        /\ METRICS'.flows_failed = METRICS.flows_failed) =>
         /\ fl'[f].pc = "enr_ret"
         /\ ~fl'[f].res["enricher"].ok /\ fl'[f].res["enricher"].error = "no_docs"
         /\ fl'[f].calls = 0 /\ fl'[f].stage = "none"
         /\ cur' = f
         /\ store' = store /\ checkpoints' = checkpoints /\ AUDIT_LOG' = AUDIT_LOG]_vars

C23_Witness ==
  \E f \in Procs :
    /\ cur = f /\ fl[f].pc = "enr_ret" /\ fl[f].payload = [docs |-> <<>>]
    /\ fl[f].res["enricher"].error = "no_docs" /\ fl[f].calls = 0
    /\ KSummary \notin DOMAIN store

\* C24: within one call of retry_async no sleep exceeds max_backoff, and the
\* sleep before a retry is at least the sleep before the retry that preceded
\* it (so it stays at max_backoff once it has been capped), whatever jitter
\* each attempt draws.
C24_BackoffGrowsToCap ==
  \A f \in Procs :
    "sleeps" \in DOMAIN fl[f].aloc =>
      LET sleeps == fl[f].aloc.sleeps
          cap == fl[f].aloc.max_backoff * 100 IN
      /\ \A i \in 1..Len(sleeps) : sleeps[i] <= cap
      /\ \A i \in 1..(Len(sleeps) - 1) : sleeps[i] <= sleeps[i + 1]
      /\ Len(sleeps) = Min(fl[f].attempt, fl[f].retries)

C24_Witness ==
  \E f \in Procs :
    /\ fl[f].pc = "retry_exc" /\ fl[f].retries = 3
    /\ fl[f].aloc.max_backoff = 5
    /\ fl[f].aloc.sleeps = <<2 * 109, 4 * 90, 500>>

\* C25: the keys cached_docs, last_summary and last_plan are shared by the
\* flows of one Orchestrator: no key of the store names a flow, and a flow's
\* write to one of them replaces the value whichever flow had written it.  So
\* there is an interleaving (the witness) in which a flow that wrote all three
\* and has not finished finds in the store the values of its sibling instead.
C25_SharedKeysAreOverwritten ==
  /\ [](DOMAIN store \subseteq {KCached, KSummary, KPlan, KReview, KTicket, KPending}
                                 \cup {KExec(key) : key \in Keys})
  /\ [][\A f \in Procs :
          /\ (fl[f].pc = "retry_ok" /\ fl[f].stage = "fetch" /\ fl'[f].pc = "retr_ret")
               => store'[KCached] = fl[f].val
          /\ (fl[f].pc = "retry_ok" /\ fl[f].stage = "llm" /\ fl'[f].pc = "enr_ret")
               => store'[KSummary] = fl[f].val
          /\ (fl[f].pc = "plan" /\ fl'[f].pc = "plan_ret")
               => store'[KPlan] = fl'[f].res["planner"].data.plan]_vars

C25_Witness ==
  \E f, g \in Procs :
    /\ f # g /\ fl[f].pc = "wait" /\ fl[f].stage = "exec" /\ fl[g].pc = "plan_ret"
    /\ fl[f].query = QFraud /\ fl[g].query = QPlain
    /\ fl[f].loc.summary = <<"LLM_SUMMARY", Prompt(Docs(QFraud, 1))>>
    /\ fl[f].loc.plan.decision = "escalate"
    /\ store[KCached] = Docs(QPlain, 1)
    /\ store[KSummary] = <<"LLM_SUMMARY", Prompt(Docs(QPlain, 1))>>
    /\ store[KPlan].decision = "inform"

\* C26: every flow terminates: with a fair event loop and tools that return
\* or raise, a flow that has started eventually returns, with status
\* "completed" or "failed", even when every tool call it makes raises.
C26_EveryFlowTerminates ==
  \A f \in 1..NumFlows :
    <>(fl[f].pc = "done" /\ fl[f].ret.status \in {"completed", "failed"})

C26_Witness ==
  \E f \in Procs :
    /\ fl[f].pc = "done" /\ fl[f].ret.status = "completed"
    /\ fl[f].ret.execution = NoneV
    /\ \A g \in Procs \ {f} : fl[g].pc = "wait"
    /\ KCached \in DOMAIN store /\ KSummary \notin DOMAIN store
    /\ KReview \in DOMAIN store /\ KPending \in DOMAIN store

\* C27: a failing tool never drives a flow to "failed".  As long as no fault
\* has been raised outside the agents' try blocks, whatever the tools raised,
\* every flow that has returned is "completed" and there is no manual_ticket;
\* a flow that is "failed", and the ticket, carry that fault and never a tool's
\* error; and a step other than the handling of such a fault never rolls the
\* store back: it leaves the store as it is or sets one key.
C27_ToolFailuresNeverFailAFlow ==
  /\ [](METRICS.flows_failed = 0 =>
          /\ KTicket \notin DOMAIN store
          /\ \A f \in Procs : fl[f].pc = "done" => fl[f].ret.status = "completed")
  /\ [](\A f \in Procs :
          (fl[f].pc = "done" /\ fl[f].ret.status # "completed") =>
            /\ fl[f].ret.status = "failed" /\ "raised_in" \in DOMAIN fl[f].loc
            /\ fl[f].ret.reason \notin {ToolError("fetch"), ToolError("llm"), ToolError("notify")})
  /\ [](KTicket \in DOMAIN store =>
          store[KTicket].error \notin {ToolError("fetch"), ToolError("llm"), ToolError("notify")})
  /\ [][METRICS'.flows_failed = METRICS.flows_failed =>
          \/ store' = store
          \/ \E k \in DOMAIN store' : k # KTicket /\ store' = Set(store, k, store'[k])]_vars

C27_Witness ==
  /\ METRICS.flows_failed = 0 /\ METRICS.flows_succeeded = NumFlows
  /\ \A f \in Procs : fl[f].pc = "done" /\ fl[f].ret.status = "completed"
  /\ \E f \in Procs : fl[f].ret.execution = NoneV
  /\ cb.fails = 1
  /\ KCached \in DOMAIN store /\ KSummary \notin DOMAIN store
  /\ KReview \in DOMAIN store /\ KPending \in DOMAIN store
  /\ KTicket \notin DOMAIN store

\* C28: the counters add up in every state: flows_started is flows_succeeded
\* plus flows_failed plus the number of flows in progress, flows_succeeded is
\* the number of flows that returned "completed" and flows_failed the number
\* that returned "failed"; so each flow counts once at its start and once at
\* its end, under the counter of the status it returns.
InProgress == {f \in Procs : fl[f].pc \notin {"idle", "done"}}

ReturnedWith(status) == {f \in Procs : fl[f].pc = "done" /\ fl[f].ret.status = status}

C28_CountersAddUp ==
  /\ METRICS.flows_started =
       METRICS.flows_succeeded + METRICS.flows_failed + Cardinality(InProgress)
  /\ METRICS.flows_succeeded = Cardinality(ReturnedWith("completed"))
  /\ METRICS.flows_failed = Cardinality(ReturnedWith("failed"))

C28_Witness ==
  /\ METRICS = [flows_started |-> 2, flows_failed |-> 1, flows_succeeded |-> 0]
  /\ \E f, g \in Procs :
       /\ fl[f].pc = "done" /\ fl[f].ret.status = "failed"
       /\ fl[g].pc = "backoff" /\ fl[g].stage = "notify"

\* C29: the documents the Retriever returns with source "cache" or "fallback"
\* are those of the most recent successful fetch whose write no rollback has
\* discarded, whichever caller and query made it, and the empty list when
\* there is no such fetch.
C29_CacheProvenance ==
  \A f \in Procs :
    (fl[f].pc = "retr_ret" /\ fl[f].res["retriever"].data.source \in {"cache", "fallback"}) =>
      fl[f].res["retriever"].data.docs =
        (IF cache_obs.live = NoneV THEN <<>> ELSE cache_obs.live)

C29_Witness ==
  \E f, g \in Procs :
    /\ fl[f].pc = "retr_ret" /\ fl[f].res["retriever"].data.source = "fallback"
    /\ fl[f].res["retriever"].data.docs = <<>>
    /\ fl[g].pc = "done" /\ fl[g].res["retriever"].data.source = "live"
    /\ KTicket \in DOMAIN store

\* C30 as stated: with trading flows run concurrently on one TraderAgent the
\* balance is never negative, and every executed buy costs at most 20% of the
\* balance at the moment its cost is debited.
C30_TradingGate ==
  /\ [](trader.balance >= 0)
  /\ [][trader'.balance < trader.balance =>
          5 * (trader.balance - trader'.balance) <= trader.balance]_vars

\* C6: one call of retry_async invokes the wrapped operation at most
\* retries + 1 times.
C6_AtMostRetriesPlusOneCalls ==
  \A f \in Procs : fl[f].calls <= fl[f].retries + 1

C6_Witness ==
  \E f \in Procs :
    /\ fl[f].pc = "done" /\ fl[f].retries = 2 /\ fl[f].calls = 3 /\ fl[f].oks = 1

\* C7 as stated: retry_async raises once `retries` attempts have failed.
C7_Original ==
  \A f \in Procs :
    fl[f].pc = "retry_exc" => fl[f].calls - fl[f].oks = fl[f].retries

\* C7, amended: retry_async raises once retries + 1 attempts have failed (the
\* first call and `retries` retries), and what it raises is the failure of the
\* last attempt.
C7_RaisesAfterRetriesPlusOne ==
  \A f \in Procs :
    fl[f].pc = "retry_exc" =>
      /\ fl[f].calls - fl[f].oks = fl[f].retries + 1
      /\ fl[f].exc.call = fl[f].calls

C7_Witness ==
  \E f \in Procs : fl[f].pc = "retry_exc" /\ fl[f].retries = 2 /\ fl[f].exc.call = 3

====
